---- MODULE Spec2Model ----
(***************************************************************************)
(* Process orchestration of can-multibackend-idf:                          *)
(*   - the monitor registry  (py/monitor/shell_monitor_logic.py)           *)
(*   - the build/flash pipelines (py/app_logic.py, py/flash_app_logic.py,  *)
(*     py/commands.py)                                                     *)
(* Coroutines are cut at their awaits: one action is the code that runs    *)
(* between two suspension points of the asyncio event loop.                *)
(***************************************************************************)
EXTENDS Integers, Sequences, FiniteSets, TLC

Ports == {"PortA", "PortB"}
Widgets == {"log1", "log2"}
\* callers of stop_monitor_for_gui: a direct caller and stop_all_monitors
Callers == {"gui", "gui2", "all"}
\* number of PortMonitorProcess objects created in one run of the model
MaxMonitors == 2
\* the creation numbers of these objects
Monitors == 1..MaxMonitors

VARIABLES
    active_monitors,  \* ShellMonitorLogic.active_monitors: port -> process object
    port_loggers,     \* ShellMonitorLogic.port_loggers:    port -> widget
    worker_tasks,     \* ShellMonitorLogic.worker_tasks:    port -> worker
    monitors,         \* the PortMonitorProcess objects, by creation number
    workers,          \* the run_monitor_with_cleanup coroutines, same numbering
    stops,            \* the frames of stop_monitor_for_gui, one per caller
    stop_all,         \* the frame of stop_all_monitors
    returned,         \* the call of the registry that has just returned, with
                      \* its result, until its caller goes on
    ccf,              \* frame of FlashApp.config_compile_flash (app_logic.py)
    legacy,           \* frame of FlashAppLogic.config_compile_flash
                      \* (flash_app_logic.py)
    runner,           \* frame of ShellCommandRunner.run_commands (commands.py)
    run,              \* one process-backed run and what its sink has received
    call,             \* the last direct call of FlashApp.call_with_results
    sdkconfig,        \* the Sdkconfig object of FlashApp and the files it owns
    out,              \* one _stream_output task and the text it has handled
    cfg               \* one Sdkconfig object with the lines of the option keys

regvars == <<active_monitors, port_loggers, worker_tasks, monitors, workers,
             stops, stop_all, returned>>

pipevars == <<ccf, legacy, runner, run, call, sdkconfig, out, cfg>>

vars == <<active_monitors, port_loggers, worker_tasks, monitors, workers,
          stops, stop_all, returned, ccf, legacy, runner, run, call,
          sdkconfig, out, cfg>>

----------------------------------------------------------------------------
\* Python dict operations
Put(d, k, v) == [x \in (DOMAIN d) \cup {k} |-> IF x = k THEN v ELSE d[x]]

Del(d, k) == [x \in (DOMAIN d) \ {k} |-> d[x]]

EmptyDict == [x \in {} |-> 0]

\* list(d.keys()): a dict lists its keys in insertion order; process objects
\* are numbered in creation order and a key is inserted with a fresh object
KeysInOrder(d) ==
    CHOOSE s \in [1..Cardinality(DOMAIN d) -> DOMAIN d] :
        /\ \A i, j \in DOMAIN s : i < j => d[s[i]] < d[s[j]]
        /\ \A k \in DOMAIN d : \E i \in DOMAIN s : s[i] = k

\* the whole registry state as one value, so that the code of a coroutine
\* segment is a function from state to state
Cur == [am |-> active_monitors, pl |-> port_loggers, wt |-> worker_tasks,
        mon |-> monitors, wk |-> workers, st |-> stops, sa |-> stop_all,
        ret |-> returned]

Install(N) ==
    /\ active_monitors' = N.am
    /\ port_loggers' = N.pl
    /\ worker_tasks' = N.wt
    /\ monitors' = N.mon
    /\ workers' = N.wk
    /\ stops' = N.st
    /\ stop_all' = N.sa
    /\ returned' = N.ret
    /\ UNCHANGED pipevars

\* a running OS process of a monitor of this port
RunningProcesses(S, port) ==
    {m \in DOMAIN S.mon : S.mon[m].port = port /\ S.mon[m].process = "alive"}

\* a stop_monitor_for_gui(port) that is suspended at one of its awaits
Stopping(S, port) ==
    \E c \in Callers : S.st[c].port = port /\ S.st[c].pc \notin {"idle", "done"}

----------------------------------------------------------------------------
\* PortMonitorProcess.__init__: no OS process yet, running = False.
\*   process: "none" (self.process is None), "alive", "exited" (return code
\*            set, pipes still open), "closed" (exited and pipes closed: the
\*            waiters of process.wait() are woken)
\* dels: how many times the cleanup code acting for this object (the stop
\*   that read it at line 276, the worker that read it at line 357) executed
\*   `del self.active_monitors[port]`
NewProcess(port) ==
    [port |-> port, process |-> "none", running |-> FALSE, dels |-> 0]

\* the coroutine run_monitor_with_cleanup(port) handed to the worker (lines
\* 255-259), not yet run. process: the object it read at line 357;
\* terminal: how many terminal messages (lines 368-372, line 378) it has
\*   written to the sink it read at line 358
\* failed: how many "Process failed" lines PortMonitorProcess.start line 78
\* has written for it; ret: what the task returned after a failed launch
NewWorker ==
    [pc |-> "init", process |-> 0, terminal |-> 0, failed |-> 0, ret |-> <<>>]

\* signalled: terminate() sent the termination signal to the running process
\*   (line 171);
\* killed: the process was still running when the grace period ran out and
\*   terminate() killed it (line 175)
\* overlapped: another stop_monitor_for_gui of the same port was called
\*   while this one was suspended, or this one was called while another was;
\* last: what the last overlapped call of this caller returned
IdleStop ==
    [pc |-> "idle", port |-> "-", process |-> 0, worker |-> 0,
     signalled |-> FALSE, killed |-> FALSE, overlapped |-> FALSE,
     last |-> "none"]

\* live: the ports that had an entry when stop_all_monitors was called;
\* restarted: ports started while stop_all_monitors was in progress;
\* stopped: ports whose process this call signalled, and whose process had
\*   ended and whose entry was gone when its stop_monitor_for_gui ended
IdleStopAll ==
    [pc |-> "idle", ports_to_stop |-> <<>>, idx |-> 1, stopped_count |-> 0,
     live |-> {}, restarted |-> {}, stopped |-> {}]

NoReturn == [op |-> "none"]

\* a start_monitor_for_gui that registers the sink before it looks for an
\* entry of the port
start_sink_first(S, port, widget) ==
    IF port \in DOMAIN S.am
    THEN [S EXCEPT !.pl = Put(@, port, widget),
                   !.ret = [op |-> "start", port |-> port, widget |-> widget,
                            value |-> FALSE]]
    ELSE LET id == Len(S.mon) + 1
         IN [S EXCEPT
               !.pl = Put(@, port, widget),
               !.mon = Append(@, NewProcess(port)),
               !.am = Put(@, port, id),
               !.wk = Append(@, NewWorker),
               !.wt = Put(@, port, id),
               !.sa.restarted = IF S.sa.pc = "idle" THEN @ ELSE @ \cup {port},
               !.ret = [op |-> "start", port |-> port, widget |-> widget,
                        value |-> TRUE]]

\* ShellMonitorLogic.start_monitor_for_gui (synchronous)
start_monitor_for_gui(S, port, widget) ==
    IF port \in DOMAIN S.am
    THEN [S EXCEPT !.ret = [op |-> "start", port |-> port, widget |-> widget,
                            value |-> FALSE]]
    ELSE LET id == Len(S.mon) + 1
         IN [S EXCEPT
               !.pl = Put(@, port, widget),
               !.mon = Append(@, NewProcess(port)),
               !.am = Put(@, port, id),
               !.wk = Append(@, NewWorker),
               !.wt = Put(@, port, id),
               !.sa.restarted = IF S.sa.pc = "idle" THEN @ ELSE @ \cup {port},
               !.ret = [op |-> "start", port |-> port, widget |-> widget,
                        value |-> TRUE]]

\* an is_monitoring that looks for the supervising task of the port
is_monitoring_by_worker(S, port) ==
    [S EXCEPT !.ret = [op |-> "is_monitoring", port |-> port,
                       value |-> port \in DOMAIN S.wt]]

\* ShellMonitorLogic.is_monitoring
is_monitoring(S, port) ==
    [S EXCEPT !.ret = [op |-> "is_monitoring", port |-> port,
                       value |-> port \in DOMAIN S.am]]

----------------------------------------------------------------------------
RECURSIVE stop_all_loop(_)

\* stop_monitor_for_gui returns value (or raises KeyError) to its caller,
\* having removed the entry of process object `removed` (0: none). When the
\* caller is stop_all_monitors, the for-loop of lines 308-313 goes on in the
\* same event-loop step: count the True, swallow the exception, next port
StopReturn(S, c, value, removed) ==
    LET f == S.st[c]
        S1 == [S EXCEPT !.st[c] =
                  [IdleStop EXCEPT !.last = IF f.overlapped THEN value ELSE @]]
    IN IF c # "all"
       THEN [S1 EXCEPT !.ret = [op |-> "stop", port |-> f.port, value |-> value,
                                process |-> f.process, removed |-> removed,
                                signalled |-> f.signalled, killed |-> f.killed]]
       ELSE stop_all_loop([S1 EXCEPT
              !.sa.stopped_count = IF value = "True" THEN @ + 1 ELSE @,
              !.sa.stopped = IF /\ f.signalled
                                /\ f.port \notin DOMAIN S.am
                                /\ S.mon[f.process].process \in {"exited", "closed"}
                             THEN @ \cup {f.port} ELSE @,
              !.sa.idx = @ + 1])

\* a cleanup that empties the three dicts instead of deleting one key
stop_cleanup_clear(S, c, viaWorker) ==
    StopReturn([S EXCEPT !.wt = EmptyDict, !.am = EmptyDict, !.pl = EmptyDict],
               c, "True", S.st[c].process)

\* stop_monitor_for_gui lines 286-292, after the wait for the worker when
\* viaWorker (line 286 is inside `if port in self.worker_tasks`, tested
\* before the await), else lines 288-292
stop_cleanup(S, c, viaWorker) ==
    LET port == S.st[c].port
        m == S.st[c].process
    IN IF viaWorker /\ port \notin DOMAIN S.wt
       THEN StopReturn(S, c, "KeyError", 0)                   \* line 286
       ELSE LET S1 == [S EXCEPT !.wt = Del(@, port), !.mon[m].dels = @ + 1]
            IN IF port \notin DOMAIN S.am
               THEN StopReturn(S1, c, "KeyError", 0)          \* line 288
               ELSE StopReturn(
                      [S1 EXCEPT !.am = Del(@, port), !.pl = Del(@, port)],
                      c, "True", S.am[port])

\* stop_monitor_for_gui lines 278-281: terminate() has returned
after_terminate(S, c) ==
    LET port == S.st[c].port
    IN IF port \in DOMAIN S.wt
       THEN [S EXCEPT !.st[c].worker = S.wt[port], !.st[c].pc = "worker_wait"]
       ELSE stop_cleanup(S, c, FALSE)

\* a stop_monitor_for_gui without the test of lines 273-274
stop_unchecked(S, c, port) ==
    LET S0 == [S EXCEPT !.st[c] = [IdleStop EXCEPT !.port = port]]
    IN IF port \notin DOMAIN S.am
       THEN stop_cleanup(S0, c, FALSE)
       ELSE after_terminate([S0 EXCEPT !.st[c].process = S.am[port]], c)

\* stop_monitor_for_gui lines 273-277 with PortMonitorProcess.terminate lines
\* 168-173, up to the first await that suspends
stop_monitor_for_gui(S, c, port) ==
    LET S0 == [S EXCEPT !.st[c] = [IdleStop EXCEPT !.port = port]]
    IN IF port \notin DOMAIN S.am
       THEN StopReturn(S0, c, "False", 0)
       ELSE LET m == S.am[port]
                S1 == [S0 EXCEPT !.st[c].process = m]
                S2 == [S1 EXCEPT !.mon[m].running = FALSE]
            IN IF S.mon[m].process = "none" \/ ~S.mon[m].running
               THEN after_terminate(S1, c)
               ELSE IF S.mon[m].process = "closed"
               \* the transport has let go of the process: terminate() of
               \* line 171 raises ProcessLookupError, caught at line 184
               THEN after_terminate(S2, c)
               ELSE IF S.mon[m].process = "exited"
               \* nothing to signal, and process.wait() of a process whose
               \* return code is set returns at once
               THEN [S2 EXCEPT !.st[c].pc = "stream_wait"]
               ELSE [S2 EXCEPT !.st[c].signalled = TRUE,
                               !.st[c].pc = "term_wait"]

\* a second stop_monitor_for_gui(port), called by another task of the event
\* loop while the first is suspended at one of its awaits
stop_overlapping(S, port) ==
    LET N == stop_monitor_for_gui([S EXCEPT !.st["gui"].overlapped = TRUE],
                                  "gui2", port)
    IN IF N.st["gui2"].pc = "idle"
       THEN [N EXCEPT !.st["gui2"].last = N.ret.value]
       ELSE [N EXCEPT !.st["gui2"].overlapped = TRUE]

\* SerialMonitorsTab._stop_monitoring (serial_monitor_tab.py lines 217-228):
\* a plain function that calls the coroutine function stop_monitor_for_gui
\* without await. The call makes a coroutine object and runs none of its
\* code; the object is dropped at the end of the handler
gui_stop_monitoring(S, port) ==
    [S EXCEPT !.ret = [op |-> "gui_stop", port |-> port,
                       value |-> "coroutine"]]

\* stop_all_monitors lines 308-315: the for-loop at index sa.idx
stop_all_loop(S) ==
    IF S.sa.idx > Len(S.sa.ports_to_stop)
    THEN [S EXCEPT !.sa = IdleStopAll,
                   !.ret = [op |-> "stop_all", value |-> S.sa.stopped_count,
                            live |-> S.sa.live,
                            restarted |-> S.sa.restarted,
                            stopped |-> S.sa.stopped]]
    ELSE stop_monitor_for_gui(S, "all", S.sa.ports_to_stop[S.sa.idx])

\* a stop_all_monitors that stops the first port only
stop_all_first_only(S) ==
    LET keys == KeysInOrder(S.am)
    IN stop_all_loop([S EXCEPT !.sa =
           [IdleStopAll EXCEPT !.pc = "loop", !.live = DOMAIN S.am,
                               !.ports_to_stop =
                                   IF keys = <<>> THEN <<>> ELSE <<keys[1]>>]])

\* stop_all_monitors lines 305-308
stop_all_monitors(S) ==
    stop_all_loop([S EXCEPT !.sa =
        [IdleStopAll EXCEPT !.pc = "loop", !.live = DOMAIN S.am,
                            !.ports_to_stop = KeysInOrder(S.am)]])

\* PortMonitorProcess.terminate lines 173-176: the grace period ran out
terminate_timeout(S, c) ==
    LET m == S.st[c].process
    IN IF S.mon[m].process = "alive"
       THEN [S EXCEPT !.st[c].killed = TRUE, !.st[c].pc = "kill_wait"]
       ELSE [S EXCEPT !.st[c].pc = "stream_wait"]

\* stop_monitor_for_gui lines 281-285: the wait for the worker ran out.
\* wait_for cancels worker.wait(), and a coroutine cancelled while it awaits
\* a task cancels that task: the worker ends at its await with
\* CancelledError, which no `except Exception` of lines 77 and 376 catches
worker_wait_timeout(S, c) ==
    LET w == S.st[c].worker
    IN stop_cleanup([S EXCEPT !.wk[w].pc = "cancelled"], c, TRUE)

----------------------------------------------------------------------------
\* a supervising task that ends without cleaning up
worker_no_cleanup(S, w) == [S EXCEPT !.wk[w].pc = "done"]

\* run_monitor_with_cleanup lines 363-366 / 379-382
worker_cleanup(S, w) ==
    LET port == S.mon[w].port
        m == S.wk[w].process
        \* lines 368-372: one of the two terminal messages
        S1 == [S EXCEPT !.wk[w].pc = "done", !.wk[w].terminal = @ + 1]
    IN IF port \in DOMAIN S.am
       THEN [S1 EXCEPT !.am = Del(@, port),
                       !.pl = Del(@, port),
                       !.mon[m].dels = @ + 1]
       ELSE [S1 EXCEPT !.pl = Del(@, port)]

\* PortMonitorProcess.start line 79: the value returned for a failed launch
LaunchFailed == -1

\* a run_end_wait that takes every status that is not negative for success
run_end_wait_nonnegative(return_code) == return_code >= 0

\* PortMonitorProcess.run_end_wait line 160
run_end_wait(return_code) == return_code = 0

\* a failed launch that start() does not report
worker_launch_unreported(S, w) ==
    [worker_cleanup(S, w) EXCEPT
        !.wk[w].ret = <<run_end_wait(LaunchFailed)>>]

\* PortMonitorProcess.start lines 77-79 (the report, return -1),
\* run_end_wait line 160 and run_monitor_with_cleanup lines 362-374
worker_launch_failed(S, w) ==
    [worker_cleanup(S, w) EXCEPT
        !.wk[w].failed = @ + 1,
        !.wk[w].ret = <<run_end_wait(LaunchFailed)>>]

\* run_monitor_with_cleanup lines 354-362 with PortMonitorProcess.start
\* line 63: up to the await of create_subprocess_shell
worker_begin(S, w) ==
    LET port == S.mon[w].port
    IN IF port \notin DOMAIN S.am
       THEN [S EXCEPT !.wk[w].pc = "done"]
       ELSE [S EXCEPT !.wk[w].pc = "launching", !.wk[w].process = S.am[port]]

\* PortMonitorProcess.start lines 63-72: the subprocess exists
worker_launched(S, w) ==
    LET m == S.wk[w].process
    IN [S EXCEPT !.mon[m].process = "alive", !.mon[m].running = TRUE,
                 !.wk[w].pc = "waiting"]

\* PortMonitorProcess.start lines 72-73: process.wait() returned
worker_process_exited(S, w) == [S EXCEPT !.wk[w].pc = "draining"]

\* run_monitor_with_cleanup cancelled at one of its awaits: CancelledError
\* is not an Exception, so neither line 77 nor line 376 catches it and the
\* coroutine ends without the cleanup
worker_cancelled(S, w) == [S EXCEPT !.wk[w].pc = "cancelled"]

\* run_monitor_with_cleanup lines 361 and 376-378: the write to the sink
\* raises, and raises again in the handler, before the cleanup of lines
\* 379-382; the coroutine ends with that exception
worker_sink_failed(S, w) == [S EXCEPT !.wk[w].pc = "done"]

----------------------------------------------------------------------------
\* Actions of the monitor registry

\* a call returns into its caller's next statement: nothing else runs in
\* between, so every other step waits for Resume
Ready == returned = NoReturn

RegInit ==
    /\ active_monitors = EmptyDict
    /\ port_loggers = EmptyDict
    /\ worker_tasks = EmptyDict
    /\ monitors = <<>>
    /\ workers = <<>>
    /\ stops = [c \in Callers |-> IdleStop]
    /\ stop_all = IdleStopAll
    /\ returned = NoReturn

StartMonitor(port, widget) ==
    /\ Ready
    /\ port \in DOMAIN active_monitors \/ Len(monitors) < MaxMonitors
    /\ Install(start_monitor_for_gui(Cur, port, widget))

StopMonitor(port) ==
    /\ Ready
    /\ stops["gui"].pc = "idle"
    /\ Install(stop_monitor_for_gui(Cur, "gui", port))

\* stop_monitor_for_gui(port) is called again for a port that has an entry
\* while the call of "gui" for that port is suspended
StopMonitorAgain(port) ==
    /\ Ready
    /\ stops["gui2"].pc = "idle"
    /\ stops["gui"].pc # "idle"
    /\ stops["gui"].port = port
    /\ port \in DOMAIN active_monitors
    /\ Install(stop_overlapping(Cur, port))

\* the Stop button of a port, or Hide on a port that is monitored
\* (serial_monitor_tab.py lines 73-74 and 105)
GuiStopMonitoring(port) ==
    /\ Ready
    /\ Install(gui_stop_monitoring(Cur, port))

IsMonitoring(port) ==
    /\ Ready
    /\ Install(is_monitoring(Cur, port))

\* wait_for(process.wait(), 1.0) returned within the grace period
TerminateExited(c) ==
    /\ Ready
    /\ stops[c].pc = "term_wait"
    /\ monitors[stops[c].process].process = "closed"
    /\ stops' = [stops EXCEPT ![c].pc = "stream_wait"]
    /\ UNCHANGED <<active_monitors, port_loggers, worker_tasks, monitors,
                   workers, stop_all, returned>>
    /\ UNCHANGED pipevars

TerminateTimeout(c) ==
    /\ Ready
    /\ stops[c].pc = "term_wait"
    /\ monitors[stops[c].process].process \in {"alive", "exited"}
    /\ Install(terminate_timeout(Cur, c))

\* PortMonitorProcess.terminate line 176: process.wait() after kill()
TerminateKilled(c) ==
    /\ Ready
    /\ stops[c].pc = "kill_wait"
    /\ monitors[stops[c].process].process = "closed"
    /\ stops' = [stops EXCEPT ![c].pc = "stream_wait"]
    /\ UNCHANGED <<active_monitors, port_loggers, worker_tasks, monitors,
                   workers, stop_all, returned>>
    /\ UNCHANGED pipevars

\* PortMonitorProcess.terminate lines 177-183: both waits for the stream
\* tasks are bounded (0.5 s each); then terminate returns
TerminateReturns(c) ==
    /\ Ready
    /\ stops[c].pc = "stream_wait"
    /\ Install(after_terminate(Cur, c))

\* wait_for(worker.wait(), 2.0): the worker has ended (a failed or cancelled
\* worker makes wait() raise, which lines 284-285 swallow)
WorkerWaitDone(c) ==
    /\ Ready
    /\ stops[c].pc = "worker_wait"
    /\ workers[stops[c].worker].pc \in {"done", "cancelled"}
    /\ Install(stop_cleanup(Cur, c, TRUE))

\* the worker is suspended at an await when the 2.0 s run out (a worker that
\* has not run yet is ahead of the timer in the loop's ready queue)
WorkerWaitTimeout(c) ==
    /\ Ready
    /\ stops[c].pc = "worker_wait"
    /\ workers[stops[c].worker].pc \in {"launching", "waiting", "draining"}
    /\ Install(worker_wait_timeout(Cur, c))

StopAllMonitors ==
    /\ Ready
    /\ stop_all.pc = "idle"
    /\ Install(stop_all_monitors(Cur))

WorkerBegin(w) ==
    /\ Ready
    /\ w \in DOMAIN workers
    /\ workers[w].pc = "init"
    /\ Install(worker_begin(Cur, w))

WorkerLaunched(w) ==
    /\ Ready
    /\ w \in DOMAIN workers
    /\ workers[w].pc = "launching"
    /\ Install(worker_launched(Cur, w))

\* create_subprocess_shell raised: start() returns -1 (lines 77-79) and
\* run_monitor_with_cleanup cleans up without suspending
WorkerLaunchFailed(w) ==
    /\ Ready
    /\ w \in DOMAIN workers
    /\ workers[w].pc = "launching"
    /\ Install(worker_launch_failed(Cur, w))

WorkerProcessExited(w) ==
    /\ Ready
    /\ w \in DOMAIN workers
    /\ workers[w].pc = "waiting"
    /\ monitors[workers[w].process].process = "closed"
    /\ Install(worker_process_exited(Cur, w))

\* gather() of the two stream tasks returned: they end at end-of-file of the
\* closed pipes
WorkerCleanup(w) ==
    /\ Ready
    /\ w \in DOMAIN workers
    /\ workers[w].pc = "draining"
    /\ Install(worker_cleanup(Cur, w))

\* the owner of the worker (the GUI framework that gui_run_worker_method of
\* line 255 belongs to) cancels the task while it is suspended
WorkerCancelled(w) ==
    /\ Ready
    /\ w \in DOMAIN workers
    /\ workers[w].pc \in {"launching", "waiting", "draining"}
    /\ Install(worker_cancelled(Cur, w))

\* the sink of the port raises on write (line 361, then line 378)
WorkerSinkFails(w) ==
    /\ Ready
    /\ w \in DOMAIN workers
    /\ workers[w].pc = "init"
    /\ monitors[w].port \in DOMAIN active_monitors
    /\ monitors[w].port \in DOMAIN port_loggers
    /\ Install(worker_sink_failed(Cur, w))

\* the OS process ends: on its own, or by a signal it was sent
ProcessExit(m) ==
    /\ Ready
    /\ m \in DOMAIN monitors
    /\ monitors[m].process = "alive"
    /\ monitors' = [monitors EXCEPT ![m].process = "exited"]
    /\ UNCHANGED <<active_monitors, port_loggers, worker_tasks, workers,
                   stops, stop_all, returned>>
    /\ UNCHANGED pipevars

\* the pipes of an ended process are closed by all of its descendants
PipesClosed(m) ==
    /\ Ready
    /\ m \in DOMAIN monitors
    /\ monitors[m].process = "exited"
    /\ monitors' = [monitors EXCEPT ![m].process = "closed"]
    /\ UNCHANGED <<active_monitors, port_loggers, worker_tasks, workers,
                   stops, stop_all, returned>>
    /\ UNCHANGED pipevars

\* the caller of the call that returned goes on
Resume ==
    /\ returned # NoReturn
    /\ returned' = NoReturn
    /\ UNCHANGED <<active_monitors, port_loggers, worker_tasks, monitors,
                   workers, stops, stop_all>>
    /\ UNCHANGED pipevars

\* one step of the stop_monitor_for_gui of caller c: an await returns or
\* its timeout fires
StopStep(c) ==
    \/ TerminateExited(c)
    \/ TerminateTimeout(c)
    \/ TerminateKilled(c)
    \/ TerminateReturns(c)
    \/ WorkerWaitDone(c)
    \/ WorkerWaitTimeout(c)

\* a process that was sent kill() (line 175) ends
KilledProcessExit(m) ==
    /\ \E c \in Callers : stops[c].pc = "kill_wait" /\ stops[c].process = m
    /\ ProcessExit(m)

\* one step of the supervising task of monitor w
WorkerStep(w) ==
    \/ WorkerBegin(w)
    \/ WorkerLaunched(w)
    \/ WorkerLaunchFailed(w)
    \/ WorkerProcessExited(w)
    \/ WorkerCleanup(w)

----------------------------------------------------------------------------
\* The pipelines

\* longest command list given to ShellCommandRunner.run_commands
MaxCommands == 3
ExitCodes == {0, 1, 2}

\* the steps of FlashApp.config_compile_flash: two plain callables, then two
\* ShellCommandConfig targets
CcfSteps ==
    << [name |-> "Switch to workspace", kind |-> "callable"],
       [name |-> "Update sdkconfig", kind |-> "callable"],
       [name |-> "Compile ESP32 firmware", kind |-> "process"],
       [name |-> "Flash firmware to port", kind |-> "process"] >>

\* the targets call_with_results can be given: a ShellCommandConfig, a
\* callable, or anything else
TargetKinds == {"process", "callable", "other"}

\* what a target can do: a callable returns a bool or something else, or
\* raises; run_end_wait of a process returns a bool, or raises; a target of
\* another kind is not run
Raw(kind) ==
    IF kind = "callable" THEN {"True", "False", "other", "raise"}
    ELSE IF kind = "process" THEN {"True", "False", "raise"}
    ELSE {"none"}

\* how many times call_with_results calls its target (line 246)
target_calls(kind) == IF kind = "callable" THEN 1 ELSE 0

\* a call_with_results that takes only the bool True for a success
call_with_results_strict(kind, raw) == raw = "True"

\* FlashApp.call_with_results: bool of the target's outcome; the TypeError
\* of line 254 and every exception of the target end in `return False`
call_with_results(kind, raw) ==
    IF kind = "other" THEN FALSE
    ELSE IF raw = "raise" THEN FALSE
    ELSE IF kind = "process" THEN raw = "True"
    ELSE IF raw \in {"True", "False"} THEN raw = "True"
    ELSE TRUE

\* attempted, outcomes, raws: the names of the steps that were called, what
\*   call_with_results returned for them, and what their targets did;
\* ret: the value returned (a bool); raised: the call ended with an
\*   exception instead of a return;
\* reported: the list of step outcomes handed to the caller with the
\*   returned value
IdleRun ==
    [pc |-> 0, attempted |-> <<>>, outcomes |-> <<>>, ret |-> FALSE,
     raws |-> <<>>, raised |-> FALSE, reported |-> <<>>]

\* a call_with_results that is silent about a result that is not a bool
call_log_bool_only(kind, raw) ==
    IF kind = "callable" /\ raw = "other" THEN <<>>
    ELSE IF kind = "process" /\ raw \in {"True", "False"}
    THEN <<"start", IF raw = "True" THEN "completed" ELSE "failed">>
    ELSE IF kind = "callable" /\ raw \in {"True", "False"}
    THEN <<IF raw = "True" THEN "completed" ELSE "failed">>
    ELSE IF kind = "process" THEN <<"start", "failed", "traceback">>
    ELSE <<"failed", "traceback">>

\* FlashApp.call_with_results: the messages it writes to its logger, in
\* order: log_start (line 240), log_success (lines 242, 249, 252) or the
\* two messages of the except handler (lines 257-258)
call_log(kind, raw) ==
    IF kind = "process" /\ raw \in {"True", "False"}
    THEN <<"start", IF raw = "True" THEN "completed" ELSE "failed">>
    ELSE IF kind = "callable" /\ raw \in {"True", "False"}
    THEN <<IF raw = "True" THEN "completed" ELSE "failed">>
    ELSE IF kind = "callable" /\ raw = "other" THEN <<"completed">>
    ELSE IF kind = "process" THEN <<"start", "failed", "traceback">>
    ELSE <<"failed", "traceback">>

IdleCall ==
    [kind |-> "-", raw |-> "-", calls |-> 0, result |-> FALSE, log |-> <<>>]

\* a config_compile_flash that goes on after a failed step
config_compile_flash_no_abort(f, raw) ==
    LET step == CcfSteps[f.pc]
        success == call_with_results(step.kind, raw)
        g == [f EXCEPT !.attempted = Append(@, step.name),
                       !.outcomes = Append(@, success),
                       !.raws = Append(@, raw)]
    IN IF f.pc = Len(CcfSteps) THEN [g EXCEPT !.pc = 0, !.ret = success]
       ELSE [g EXCEPT !.pc = f.pc + 1]

\* FlashApp.config_compile_flash: step number f.pc is called and its outcome
\* decides between the next step and `return False`
config_compile_flash(f, raw) ==
    LET step == CcfSteps[f.pc]
        success == call_with_results(step.kind, raw)
        g == [f EXCEPT !.attempted = Append(@, step.name),
                       !.outcomes = Append(@, success),
                       !.raws = Append(@, raw)]
    IN IF ~success THEN [g EXCEPT !.pc = 0, !.ret = FALSE]
       ELSE IF f.pc = Len(CcfSteps) THEN [g EXCEPT !.pc = 0, !.ret = success]
       ELSE [g EXCEPT !.pc = f.pc + 1]

\* FlashApp.config_compile_flash lines 292-293: get_optimal_jobs (cpu_count,
\* psutil.virtual_memory) raises between the second and the third step,
\* outside every try
config_compile_flash_raises(f) == [f EXCEPT !.pc = 0, !.raised = TRUE]

\* the step before which get_optimal_jobs is called
BuildStep == 3

\* the steps of FlashApp.config_compile_flash that are plain callables
SwitchStep == 1
UpdateStep == 2

\* the (lib, example) selections a run can be called with; each has its own
\* workspace directory with an sdkconfig file, and the content of an
\* sdkconfig file is named after the selection it enables
Selections == {"s1", "s2"}

\* the sdkconfig file FlashApp was constructed with enables this selection
BaseContent == "s1"

\* Sdkconfig._backup_to_rotated_file(max_backups = 5): .backup.4 is removed
\* before .backup.3 is renamed to it, so .backup.1-.backup.4 are kept
max_backups == 5
KeptBackups == max_backups - 1

\* files: the content of the sdkconfig file of each workspace ("missing",
\*   the name of a selection, or "partial" after a write that failed);
\* backups: the contents of .backup.1, .backup.2, ... of each workspace;
\* lines: self.sdkconfig._sdkconfig_lines, the content held in memory;
\* path: self._workspace_path; selected: the arguments of the run;
\* backup: what the backup of the last `Update sdkconfig` step did
IdleSdkconfig ==
    [files |-> [w \in Selections |-> "missing"],
     backups |-> [w \in Selections |-> <<>>],
     lines |-> BaseContent, path |-> "-", selected |-> "-",
     backup |-> "none"]

\* FlashApp._switch_to_workspace lines 122-150: the file of a new workspace
\* is a copy of the base file; the file of an existing one is reloaded
switch_to_workspace(c, sel) ==
    IF c.files[sel] = "missing"
    THEN [c EXCEPT !.files[sel] = BaseContent, !.path = sel, !.selected = sel]
    ELSE [c EXCEPT !.lines = c.files[sel], !.path = sel, !.selected = sel]

\* a rotation that removes no generation
rotated_keep_all(bk, content) == <<content>> \o bk

\* the rotation of lines 320-333 followed by the new .backup.1
rotated(bk, content) ==
    IF bk = <<>> THEN <<content>>
    ELSE <<content>> \o SubSeq(bk, 1, IF Len(bk) < KeptBackups - 1
                                       THEN Len(bk) ELSE KeptBackups - 1)

\* Sdkconfig._backup_to_rotated_file: True with a new .backup.1 holding the
\* file's content; False when the file is missing, when the rotation raised
\* ("rotate_fails") or when the copy raised after it ("copy_fails")
backup_to_rotated_file(c, how) ==
    IF c.files[c.path] = "missing" \/ how = "rotate_fails"
    THEN [store |-> [c EXCEPT !.backup = "failed"], ok |-> FALSE]
    ELSE IF how = "copy_fails"
    THEN [store |-> [c EXCEPT !.backup = "failed",
                              !.backups[c.path] = rotated(@, "missing")],
          ok |-> FALSE]
    ELSE [store |-> [c EXCEPT !.backup = "ok",
                              !.backups[c.path] = rotated(@, c.files[c.path])],
          ok |-> TRUE]

\* a Sdkconfig.write that goes on after a failed backup
write_unchecked(c, how, writing) ==
    LET b == backup_to_rotated_file(c, how)
    IN IF writing = "ok"
       THEN [store |-> [b.store EXCEPT !.files[c.path] = c.lines],
             raised |-> FALSE]
       ELSE [store |-> b.store, raised |-> TRUE]

\* Sdkconfig.write: returns without writing when the backup failed (lines
\* 350-352); open() or a write can raise, the latter with part of the
\* lines written
write(c, how, writing) ==
    LET b == backup_to_rotated_file(c, how)
    IN IF ~b.ok THEN [store |-> b.store, raised |-> FALSE]
       ELSE IF writing = "ok"
       THEN [store |-> [b.store EXCEPT !.files[c.path] = c.lines],
             raised |-> FALSE]
       ELSE IF writing = "open_fails"
       THEN [store |-> b.store, raised |-> TRUE]
       ELSE [store |-> [b.store EXCEPT !.files[c.path] = "partial"],
             raised |-> TRUE]

\* FlashApp._update_sdkconfig: the lines in memory are set to the selection
\* (lines 176-195), written when one of them changed (lines 198-203); True
\* unless an exception was raised (lines 207-212)
update_sdkconfig(c, how, writing) ==
    LET changes_made == c.lines # c.selected
        c1 == [c EXCEPT !.lines = c.selected, !.backup = "none"]
    IN IF ~changes_made THEN [store |-> c1, ret |-> TRUE]
       ELSE LET w == write(c1, how, writing)
            IN [store |-> w.store, ret |-> ~w.raised]

\* the steps of FlashAppLogic.config_compile_flash; upload_to_port is a
\* placeholder that returns True
LegacySteps ==
    << [name |-> "update_sdkconfig", results |-> BOOLEAN],
       [name |-> "compile_code", results |-> BOOLEAN],
       [name |-> "upload_to_port", results |-> {TRUE}] >>

\* a FlashAppLogic.config_compile_flash that goes on after a failed step
legacy_no_abort(f, success) ==
    LET step == LegacySteps[f.pc]
        g == [f EXCEPT !.attempted = Append(@, step.name),
                       !.outcomes = Append(@, success)]
    IN IF f.pc = Len(LegacySteps) THEN [g EXCEPT !.pc = 0, !.ret = TRUE]
       ELSE [g EXCEPT !.pc = f.pc + 1]

\* FlashAppLogic.config_compile_flash
legacy_config_compile_flash(f, success) ==
    LET step == LegacySteps[f.pc]
        g == [f EXCEPT !.attempted = Append(@, step.name),
                       !.outcomes = Append(@, success)]
    IN IF ~success THEN [g EXCEPT !.pc = 0, !.ret = FALSE]
       ELSE IF f.pc = Len(LegacySteps) THEN [g EXCEPT !.pc = 0, !.ret = TRUE]
       ELSE [g EXCEPT !.pc = f.pc + 1]

IdleRunner == [pc |-> 0, n |-> 0, attempted |-> <<>>, codes |-> <<>>, ret |-> 0]

\* ShellCommandRunner.run_commands on the rest of the list from f.pc on:
\* the first command runs and exits with returncode; 0 recurses on the tail
\* (which returns 0 at once when it is empty), anything else is returned
run_commands(f, returncode) ==
    LET g == [f EXCEPT !.attempted = Append(@, f.pc),
                       !.codes = Append(@, returncode)]
    IN IF returncode = 0
       THEN IF f.pc = f.n THEN [g EXCEPT !.pc = 0, !.ret = 0]
            ELSE [g EXCEPT !.pc = f.pc + 1]
       ELSE [g EXCEPT !.pc = 0, !.ret = returncode]

----------------------------------------------------------------------------
\* One process-backed run: run_monitor_with_cleanup around
\* PortMonitorProcess.run_end_wait ("monitor"), and the process branch of
\* FlashApp.call_with_results around the run_end_wait of its process ("step")

\* output chunks one process writes in a run of the model
MaxChunks == 2

\* flush_interval in units of read_timeout, the period of the poll of lines
\* 96-99 (0.05 s and 0.001 s in the code)
FlushInterval == 2
Streams == {"stdout", "stderr"}
RunKinds == {"monitor", "step"}

\* sink: the events the sink has received, in order ("start", the name of a
\*   stream for a flushed buffer, "error", "terminal");
\* pipe: chunks written by the process and not yet read, per stream;
\* buffer: chunks in the local `buffer` of a stream task (line 91);
\* task: the stream tasks of lines 70-71;
\* taken, written: chunks a stream task has read from its pipe and has
\*   written to the sink;
\* elapsed: time since last_flush of a stream task, counted up to
\*   FlushInterval; age: how long the oldest chunk in its buffer has been
\*   there; polled: the task has gone through its loop since the last tick;
\* signal: the last signal terminate() sent to the process;
\* returncode: process.returncode, meaningful once the process has exited;
\* ret: what run_end_wait returned, meaningful once pc is "done"
IdleProcessRun ==
    [pc |-> "idle", kind |-> "-", sink |-> <<>>, running |-> FALSE,
     process |-> "none", produced |-> 0,
     pipe |-> [st \in Streams |-> 0], buffer |-> [st \in Streams |-> 0],
     task |-> [st \in Streams |-> "none"],
     taken |-> [st \in Streams |-> 0], written |-> [st \in Streams |-> 0],
     elapsed |-> [st \in Streams |-> 0], age |-> [st \in Streams |-> 0],
     polled |-> [st \in Streams |-> FALSE],
     signal |-> "none", returncode |-> 0, ret |-> FALSE]

\* exit statuses of a process that ends by itself, and the returncode
\* asyncio reports for a process ended by SIGTERM or SIGKILL
OwnExit == {0, 2}
SIGTERM == 15
SIGKILL == 9

\* the exit statuses a process can end with, given the signal sent to it
ExitStatuses(signal) ==
    IF signal = "term" THEN OwnExit \cup {-SIGTERM}
    ELSE IF signal = "kill" THEN OwnExit \cup {-SIGTERM, -SIGKILL}
    ELSE OwnExit

\* run_monitor_with_cleanup line 361 / call_with_results line 240
run_begin(r, kind) ==
    [r EXCEPT !.kind = kind, !.sink = Append(@, "start"), !.pc = "launching"]

\* PortMonitorProcess.start lines 63-72
run_launched(r) ==
    [r EXCEPT !.process = "alive", !.running = TRUE,
              !.task = [st \in Streams |-> "reading"], !.pc = "waiting"]

\* run_monitor_with_cleanup lines 368-372 / call_with_results line 242
run_terminal(r) == [r EXCEPT !.sink = Append(@, "terminal"), !.pc = "done"]

\* PortMonitorProcess.start lines 77-79, then the terminal message
run_launch_failed(r) ==
    run_terminal([r EXCEPT !.sink = Append(@, "error"),
                           !.ret = run_end_wait(LaunchFailed)])

\* PortMonitorProcess.start line 75 and run_end_wait line 160, then the
\* terminal message
run_returns(r) == run_terminal([r EXCEPT !.ret = run_end_wait(r.returncode)])

\* a flush that empties the buffer without writing it
stream_flush_drop(r, st) ==
    [r EXCEPT !.buffer[st] = 0, !.elapsed[st] = 0, !.age[st] = 0]

\* _stream_output lines 115-118 and 121-126: write the buffer, empty it and
\* set last_flush
stream_flush(r, st) ==
    IF r.buffer[st] > 0
    THEN [r EXCEPT !.sink = Append(@, st), !.written[st] = @ + r.buffer[st],
                   !.buffer[st] = 0, !.elapsed[st] = 0, !.age[st] = 0]
    ELSE r

\* _stream_output lines 96-118: a chunk is read; should_flush of line 109
\* is true by content (a newline in the chunk, or chunk_size reached) or
\* when flush_interval has passed since last_flush
stream_read(r, st, by_content) ==
    LET r1 == [r EXCEPT !.pipe[st] = @ - 1, !.buffer[st] = @ + 1,
                        !.taken[st] = @ + 1, !.polled[st] = TRUE]
        should_flush == by_content \/ r.elapsed[st] >= FlushInterval
    IN IF should_flush THEN stream_flush(r1, st) ELSE r1

\* a poll that never writes the buffer
stream_timeout_no_flush(r, st) == [r EXCEPT !.polled[st] = TRUE]

\* _stream_output lines 120-127: the read timed out; the buffer is written
\* when flush_interval has passed since last_flush
stream_timeout(r, st) ==
    LET r1 == [r EXCEPT !.polled[st] = TRUE]
    IN IF r.buffer[st] > 0 /\ r.elapsed[st] >= FlushInterval
       THEN stream_flush(r1, st)
       ELSE r1

\* read_timeout passes: the clocks of the stream tasks in their loop advance
tick(r) ==
    [r EXCEPT
       !.elapsed = [st \in Streams |->
                      IF r.task[st] = "reading" /\ r.elapsed[st] < FlushInterval
                      THEN r.elapsed[st] + 1 ELSE r.elapsed[st]],
       !.age = [st \in Streams |->
                  IF r.buffer[st] > 0 /\ r.age[st] <= FlushInterval
                  THEN r.age[st] + 1 ELSE r.age[st]],
       !.polled = [st \in Streams |-> FALSE]]

\* a stream task that ends without writing what is left in its buffer
stream_finish_no_flush(r, st) ==
    [r EXCEPT !.task[st] = "done", !.elapsed[st] = 0, !.polled[st] = FALSE]

\* _stream_output lines 100-101 or line 94, then lines 131-132: the loop is
\* left and what is left in the buffer is written
stream_finish(r, st) ==
    [stream_flush(r, st) EXCEPT !.task[st] = "done", !.elapsed[st] = 0,
                                !.polled[st] = FALSE]

\* the "Stream error: ..." line of a stream task, as the sink receives it
StreamErrorLine(st) == IF st = "stdout" THEN "stdout error" ELSE "stderr error"

\* a read error that ends the run's streaming as a whole
stream_read_error_stops_run(r, st) ==
    stream_finish([r EXCEPT !.sink = Append(@, StreamErrorLine(st)),
                            !.running = FALSE], st)

\* _stream_output lines 128-130, then lines 132-133: stream.read raised, the
\* error is written to the sink, the loop is left and what is left in the
\* buffer is written
stream_read_error(r, st) ==
    stream_finish([r EXCEPT !.sink = Append(@, StreamErrorLine(st))], st)

----------------------------------------------------------------------------
\* One _stream_output task with the text it reads and writes. A string is a
\* sequence of characters; "nl" is the newline, "cr" the carriage return,
\* "bad" a byte that is not UTF-8 and "fffd" the replacement character.

\* chunk_size (line 29: 4096 in the code), in bytes a read returns at most
\* and in characters of buffer that make a flush due
ChunkSize == 2

\* bytes one stream carries in a run of the model
MaxData == 4

\* what stream.read(self.chunk_size) can return before end-of-file
Reads == UNION {[1..n -> {"a", "nl", "cr", "bad"}] : n \in 1..ChunkSize}

\* data: the decoded text read so far; buffer: the local `buffer`;
\* sink: the texts handed to the widget's write, in order;
\* ended: why the loop was left ("eof", "error", "stopped")
IdleStreamOutput ==
    [task |-> "none", prefix |-> <<>>, data |-> <<>>, buffer |-> <<>>,
     sink |-> <<>>, ended |-> "-"]

\* data.decode('utf-8', errors='replace') of line 103
decode(data) ==
    [i \in 1..Len(data) |-> IF data[i] = "bad" THEN "fffd" ELSE data[i]]

\* text.replace('\r', '') of line 146
remove_cr(text) == SelectSeq(text, LAMBDA ch : ch # "cr")

\* PortMonitorProcess._write_to_textarea
write_to_textarea(o, text) == [o EXCEPT !.sink = Append(@, remove_cr(text))]

\* _stream_output lines 116-117, 123-125, 133
text_flush(o) ==
    write_to_textarea([o EXCEPT !.buffer = <<>>], o.prefix \o o.buffer)

\* _stream_output lines 103-118: data was read; due: flush_interval has
\* passed since last_flush
text_read(o, data, due) ==
    LET chunk == decode(data)
        buffer == o.buffer \o chunk
        o1 == [o EXCEPT !.buffer = buffer, !.data = @ \o chunk]
        should_flush ==
            \/ \E i \in DOMAIN chunk : chunk[i] = "nl"
            \/ Len(buffer) >= ChunkSize
            \/ due
    IN IF should_flush /\ buffer # <<>> THEN text_flush(o1) ELSE o1

\* _stream_output lines 120-127
text_timeout(o, due) == IF o.buffer # <<>> /\ due THEN text_flush(o) ELSE o

\* a loop that is left without writing what is in the buffer
text_finish_no_flush(o, why) == [o EXCEPT !.task = "done", !.ended = why]

\* _stream_output lines 132-133, after the loop
text_finish(o, why) ==
    LET o1 == IF o.buffer # <<>> THEN text_flush(o) ELSE o
    IN [o1 EXCEPT !.task = "done", !.ended = why]

\* _stream_output lines 128-130, then lines 132-133
text_error(o) == text_finish(write_to_textarea(o, <<"Stream error">>), "error")

----------------------------------------------------------------------------
\* One Sdkconfig object, line by line, for the keys of the option catalog
\* (kconfig_dict.get_all_options().keys())

Libs == {"LIB_A", "LIB_B"}
Examples == {"EXAMPLE_A"}
Catalog == Libs \cup Examples

\* the text of the line of a key in an sdkconfig file a project starts with,
\* with K for the key; SdkconfigLine writes "CONFIG_K = y", "CONFIG_K = n"
\* and the "not set" line
RawLines ==
    {"CONFIG_K=y", "CONFIG_K=n", "# CONFIG_K is not set", "CONFIG_K=1"}

\* SdkconfigLine._set_from_raw_str
SdkconfigLine(raw_str) ==
    LET value == IF raw_str \in {"CONFIG_K=y", "CONFIG_K = y"} THEN "y"
                 ELSE IF raw_str = "CONFIG_K=1" THEN "1"
                 ELSE "n"
    IN [raw_str |-> raw_str, value |-> value,
        type |-> IF value \in {"y", "n"} THEN "BOOL" ELSE "INT",
        is_changed |-> FALSE]

\* SdkconfigLine.set_value
set_value(line, new_value) ==
    [line EXCEPT !.value = new_value, !.is_changed = TRUE]

\* SdkconfigLine._write_to_file: the text written for the line
write_to_file(line) ==
    IF ~line.is_changed THEN line.raw_str
    ELSE IF line.type = "BOOL"
    THEN IF line.value = "y" THEN "CONFIG_K = y" ELSE "# CONFIG_K is not set"
    ELSE IF line.value = "y" THEN "CONFIG_K = y"
    ELSE IF line.value = "n" THEN "CONFIG_K = n"
    ELSE line.raw_str

\* Sdkconfig._load_sdkconfig: the lines of the keys the file has
load_sdkconfig(file) == [k \in DOMAIN file |-> SdkconfigLine(file[k])]

\* Sdkconfig.add_no_existing_bool_keys: a "not set" line for every expected
\* key that has none
add_no_existing_bool_keys(lines) ==
    [k \in Catalog |-> IF k \in DOMAIN lines THEN lines[k]
                       ELSE SdkconfigLine("# CONFIG_K is not set")]

\* lines: _sdkconfig_lines by key; file: the lines of the file on disk;
\* lib_id, example_id, ret: the arguments and the result of the last update
\* step; changes_made: its counter; wrote: it wrote the file
IdleConfig ==
    [state |-> "none", lines |-> EmptyDict, file |-> EmptyDict,
     lib_id |-> "-", example_id |-> "-", changes_made |-> 0, wrote |-> FALSE,
     ret |-> TRUE]

\* an update step that writes the file whether a value changed or not
update_lines_always_write(c, lib_id, example_id, how) ==
    LET new_value(k) == IF k = lib_id \/ k = example_id THEN "y" ELSE "n"
        lines == [k \in DOMAIN c.lines |->
                     IF c.lines[k].value # new_value(k)
                     THEN set_value(c.lines[k], new_value(k))
                     ELSE c.lines[k]]
    IN [c EXCEPT !.lines = lines, !.lib_id = lib_id,
                 !.example_id = example_id,
                 !.changes_made = Cardinality({k \in DOMAIN c.lines :
                                      c.lines[k].value # new_value(k)}),
                 !.file = [k \in DOMAIN lines |-> write_to_file(lines[k])],
                 !.wrote = TRUE, !.ret = TRUE]

\* FlashApp._update_sdkconfig lines 157-212 (FlashAppLogic.update_sdkconfig
\* has the same body) with Sdkconfig.write; how: what the write meets ("ok";
\* "backup_fails": write returns without writing; "open_fails": open raises;
\* "write_fails": the file is opened, which empties it, and a write raises)
update_lines(c, lib_id, example_id, how) ==
    LET new_value(k) == IF k = lib_id \/ k = example_id THEN "y" ELSE "n"
        changed == {k \in DOMAIN c.lines : c.lines[k].value # new_value(k)}
        lines == [k \in DOMAIN c.lines |->
                     IF k \in changed
                     THEN set_value(c.lines[k], new_value(k))
                     ELSE c.lines[k]]
        c1 == [c EXCEPT !.lines = lines, !.lib_id = lib_id,
                        !.example_id = example_id,
                        !.changes_made = Cardinality(changed),
                        !.wrote = FALSE, !.ret = TRUE]
    IN IF changed = {} \/ how = "backup_fails" THEN c1
       ELSE IF how = "ok"
       THEN [c1 EXCEPT !.file = [k \in DOMAIN lines |-> write_to_file(lines[k])],
                       !.wrote = TRUE]
       ELSE IF how = "open_fails" THEN [c1 EXCEPT !.ret = FALSE]
       ELSE [c1 EXCEPT !.file = EmptyDict, !.ret = FALSE]

PipeInit ==
    /\ ccf = IdleRun
    /\ legacy = IdleRun
    /\ runner = IdleRunner
    /\ run = IdleProcessRun
    /\ call = IdleCall
    /\ sdkconfig = IdleSdkconfig
    /\ out = IdleStreamOutput
    /\ cfg = IdleConfig

CcfCall ==
    /\ UNCHANGED regvars
    /\ ccf.pc = 0
    /\ ccf' = [IdleRun EXCEPT !.pc = 1]
    /\ UNCHANGED <<legacy, runner, run, call, sdkconfig, out, cfg>>

CcfStep ==
    /\ UNCHANGED regvars
    /\ ccf.pc > 0
    /\ \E raw \in Raw(CcfSteps[ccf.pc].kind) : ccf' = config_compile_flash(ccf, raw)
    /\ UNCHANGED <<legacy, runner, run, call, sdkconfig, out, cfg>>

CcfBetweenStepsRaises ==
    /\ UNCHANGED regvars
    /\ ccf.pc = BuildStep
    /\ ccf' = config_compile_flash_raises(ccf)
    /\ UNCHANGED <<legacy, runner, run, call, sdkconfig, out, cfg>>

\* the first step of a run called with selection sel: _switch_to_workspace
\* returns None, or raises before it changed a file it owns
CcfSwitchToWorkspace(sel, raw) ==
    /\ UNCHANGED regvars
    /\ ccf.pc = SwitchStep
    /\ raw \in {"other", "raise"}
    /\ sdkconfig' = IF raw = "raise" THEN [sdkconfig EXCEPT !.selected = sel]
                    ELSE switch_to_workspace(sdkconfig, sel)
    /\ ccf' = config_compile_flash(ccf, raw)
    /\ UNCHANGED <<legacy, runner, run, call, out, cfg>>

\* the second step: _update_sdkconfig
CcfUpdateSdkconfig(how, writing) ==
    /\ UNCHANGED regvars
    /\ ccf.pc = UpdateStep
    /\ LET res == update_sdkconfig(sdkconfig, how, writing)
       IN /\ sdkconfig' = res.store
          /\ ccf' = config_compile_flash(ccf, IF res.ret THEN "True" ELSE "False")
    /\ UNCHANGED <<legacy, runner, run, call, out, cfg>>

\* the build and flash steps
CcfProcessStep ==
    /\ ccf.pc >= BuildStep
    /\ CcfStep

\* a direct call of call_with_results with any target
CallWithResults(kind, raw) ==
    /\ UNCHANGED regvars
    /\ raw \in Raw(kind)
    /\ call' = [kind |-> kind, raw |-> raw, calls |-> target_calls(kind),
                result |-> call_with_results(kind, raw),
                log |-> call_log(kind, raw)]
    /\ UNCHANGED <<ccf, legacy, runner, run, sdkconfig, out, cfg>>

LegacyCall ==
    /\ UNCHANGED regvars
    /\ legacy.pc = 0
    /\ legacy' = [IdleRun EXCEPT !.pc = 1]
    /\ UNCHANGED <<ccf, runner, run, call, sdkconfig, out, cfg>>

LegacyStep ==
    /\ UNCHANGED regvars
    /\ legacy.pc > 0
    /\ \E success \in LegacySteps[legacy.pc].results :
           legacy' = legacy_config_compile_flash(legacy, success)
    /\ UNCHANGED <<ccf, runner, run, call, sdkconfig, out, cfg>>

RunBegin(kind) ==
    /\ UNCHANGED regvars
    /\ run.pc = "idle"
    /\ run' = run_begin(run, kind)
    /\ UNCHANGED <<ccf, legacy, runner, call, sdkconfig, out, cfg>>

RunLaunched ==
    /\ UNCHANGED regvars
    /\ run.pc = "launching"
    /\ run' = run_launched(run)
    /\ UNCHANGED <<ccf, legacy, runner, call, sdkconfig, out, cfg>>

RunLaunchFailed ==
    /\ UNCHANGED regvars
    /\ run.pc = "launching"
    /\ run' = run_launch_failed(run)
    /\ UNCHANGED <<ccf, legacy, runner, call, sdkconfig, out, cfg>>

\* the process, or a descendant that has its pipes, writes a chunk
ProcessWrites(st) ==
    /\ UNCHANGED regvars
    /\ run.process \in {"alive", "exited"}
    /\ run.produced < MaxChunks
    /\ run' = [run EXCEPT !.pipe[st] = @ + 1, !.produced = @ + 1]
    /\ UNCHANGED <<ccf, legacy, runner, call, sdkconfig, out, cfg>>

StreamRead(st) ==
    /\ UNCHANGED regvars
    /\ run.task[st] = "reading"
    /\ run.running
    /\ run.pipe[st] > 0
    /\ \E by_content \in BOOLEAN : run' = stream_read(run, st, by_content)
    /\ UNCHANGED <<ccf, legacy, runner, call, sdkconfig, out, cfg>>

\* _stream_output lines 120-127: no data came within read_timeout
StreamTimeout(st) ==
    /\ UNCHANGED regvars
    /\ run.task[st] = "reading"
    /\ run.running
    /\ ~run.polled[st]
    /\ run.pipe[st] = 0
    /\ run.process # "closed"
    /\ run' = stream_timeout(run, st)
    /\ UNCHANGED <<ccf, legacy, runner, call, sdkconfig, out, cfg>>

\* end of file: the pipe is closed and empty (lines 100-101)
StreamEOF(st) ==
    /\ UNCHANGED regvars
    /\ run.task[st] = "reading"
    /\ run.running
    /\ run.process = "closed"
    /\ run.pipe[st] = 0
    /\ run' = stream_finish(run, st)
    /\ UNCHANGED <<ccf, legacy, runner, call, sdkconfig, out, cfg>>

\* stream.read of line 97 raises
StreamReadError(st) ==
    /\ UNCHANGED regvars
    /\ run.task[st] = "reading"
    /\ run.running
    /\ run' = stream_read_error(run, st)
    /\ UNCHANGED <<ccf, legacy, runner, call, sdkconfig, out, cfg>>

\* `while self.running` of line 94 is false after terminate()
StreamStops(st) ==
    /\ UNCHANGED regvars
    /\ run.task[st] = "reading"
    /\ ~run.running
    /\ run' = stream_finish(run, st)
    /\ UNCHANGED <<ccf, legacy, runner, call, sdkconfig, out, cfg>>

\* read_timeout passes; in that time every stream task in its loop has
\* read a chunk, timed out, or left the loop
Tick ==
    /\ UNCHANGED regvars
    /\ \E st \in Streams : run.task[st] = "reading"
    /\ \A st \in Streams : run.task[st] = "reading" => run.polled[st]
    /\ run' = tick(run)
    /\ UNCHANGED <<ccf, legacy, runner, call, sdkconfig, out, cfg>>

RunProcessExit ==
    /\ UNCHANGED regvars
    /\ run.process = "alive"
    /\ \E status \in ExitStatuses(run.signal) :
           run' = [run EXCEPT !.process = "exited", !.returncode = status]
    /\ UNCHANGED <<ccf, legacy, runner, call, sdkconfig, out, cfg>>

RunPipesClosed ==
    /\ UNCHANGED regvars
    /\ run.process = "exited"
    /\ run' = [run EXCEPT !.process = "closed"]
    /\ UNCHANGED <<ccf, legacy, runner, call, sdkconfig, out, cfg>>

\* PortMonitorProcess.terminate lines 168-171, called by a stop of the
\* monitor; its waits do not write to the sink; the signal reaches only a
\* process that has not exited
RunTerminate ==
    /\ UNCHANGED regvars
    /\ run.kind = "monitor"
    /\ run.process # "none"
    /\ run.running
    /\ run' = [run EXCEPT !.running = FALSE,
                          !.signal = IF run.process = "alive" THEN "term" ELSE @]
    /\ UNCHANGED <<ccf, legacy, runner, call, sdkconfig, out, cfg>>

\* PortMonitorProcess.terminate lines 173-175: the process did not exit
\* within 1.0 s of SIGTERM and is killed
RunKill ==
    /\ UNCHANGED regvars
    /\ run.signal = "term"
    /\ run.process = "alive"
    /\ run' = [run EXCEPT !.signal = "kill"]
    /\ UNCHANGED <<ccf, legacy, runner, call, sdkconfig, out, cfg>>

\* PortMonitorProcess.start line 72: process.wait() returned
RunWaitReturns ==
    /\ UNCHANGED regvars
    /\ run.pc = "waiting"
    /\ run.process = "closed"
    /\ run' = [run EXCEPT !.pc = "draining"]
    /\ UNCHANGED <<ccf, legacy, runner, call, sdkconfig, out, cfg>>

\* PortMonitorProcess.start line 73: gather returned, run_end_wait returns
\* and the caller writes the terminal message
RunGatherReturns ==
    /\ UNCHANGED regvars
    /\ run.pc = "draining"
    /\ \A st \in Streams : run.task[st] = "done"
    /\ run' = run_returns(run)
    /\ UNCHANGED <<ccf, legacy, runner, call, sdkconfig, out, cfg>>

\* PortMonitorProcess.start lines 70-71: the task of one of the streams,
\* with its prefix argument, a string without newline or carriage return,
\* as one character
TextBegin(st) ==
    /\ UNCHANGED regvars
    /\ out.task = "none"
    /\ out' = [IdleStreamOutput EXCEPT
                  !.task = "reading",
                  !.prefix = IF st = "stderr" THEN <<"STDERR: ">> ELSE <<>>]
    /\ UNCHANGED <<ccf, legacy, runner, run, call, sdkconfig, cfg>>

TextRead(data, due) ==
    /\ UNCHANGED regvars
    /\ out.task = "reading"
    /\ Len(out.data) + Len(data) <= MaxData
    /\ out' = text_read(out, data, due)
    /\ UNCHANGED <<ccf, legacy, runner, run, call, sdkconfig, cfg>>

TextTimeout(due) ==
    /\ UNCHANGED regvars
    /\ out.task = "reading"
    /\ out' = text_timeout(out, due)
    /\ UNCHANGED <<ccf, legacy, runner, run, call, sdkconfig, cfg>>

\* stream.read returned b'' (lines 100-101)
TextEOF ==
    /\ UNCHANGED regvars
    /\ out.task = "reading"
    /\ out' = text_finish(out, "eof")
    /\ UNCHANGED <<ccf, legacy, runner, run, call, sdkconfig, cfg>>

\* stream.read raised (lines 128-130)
TextReadError ==
    /\ UNCHANGED regvars
    /\ out.task = "reading"
    /\ out' = text_error(out)
    /\ UNCHANGED <<ccf, legacy, runner, run, call, sdkconfig, cfg>>

\* self.running is false at line 94, after terminate()
TextStops ==
    /\ UNCHANGED regvars
    /\ out.task = "reading"
    /\ out' = text_finish(out, "stopped")
    /\ UNCHANGED <<ccf, legacy, runner, run, call, sdkconfig, cfg>>

\* re_init (app_logic.py lines 66-74): the Sdkconfig object of the project's
\* sdkconfig file, with the expected keys added
LinesInit(file) ==
    /\ UNCHANGED regvars
    /\ cfg.state = "none"
    /\ cfg' = [IdleConfig EXCEPT
                  !.state = "loaded", !.file = file,
                  !.lines = add_no_existing_bool_keys(load_sdkconfig(file))]
    /\ UNCHANGED <<ccf, legacy, runner, run, call, sdkconfig, out>>

\* _switch_to_workspace line 149: the object is made anew from the file
LinesReload ==
    /\ UNCHANGED regvars
    /\ cfg.state = "loaded"
    /\ cfg' = [cfg EXCEPT !.lines = load_sdkconfig(cfg.file)]
    /\ UNCHANGED <<ccf, legacy, runner, run, call, sdkconfig, out>>

\* the `Update sdkconfig` step for a selection
LinesUpdate(lib_id, example_id, how) ==
    /\ UNCHANGED regvars
    /\ cfg.state = "loaded"
    /\ cfg' = update_lines(cfg, lib_id, example_id, how)
    /\ UNCHANGED <<ccf, legacy, runner, run, call, sdkconfig, out>>

\* run_commands(command_obj_list, ...) with a list of n commands; the empty
\* list returns 0 at once (lines 42-44)
RunCommandsCall(n) ==
    /\ UNCHANGED regvars
    /\ runner.pc = 0
    /\ runner' = [IdleRunner EXCEPT !.n = n, !.pc = IF n = 0 THEN 0 ELSE 1]
    /\ UNCHANGED <<ccf, legacy, run, call, sdkconfig, out, cfg>>

RunCommandsStep ==
    /\ UNCHANGED regvars
    /\ runner.pc > 0
    /\ \E returncode \in ExitCodes : runner' = run_commands(runner, returncode)
    /\ UNCHANGED <<ccf, legacy, run, call, sdkconfig, out, cfg>>

----------------------------------------------------------------------------
Init == RegInit /\ PipeInit

\* the monitor registry, ports started and stopped one by one
Next ==
    \/ \E port \in Ports, widget \in Widgets : StartMonitor(port, widget)
    \/ \E port \in Ports : StopMonitor(port)
    \/ \E port \in Ports : IsMonitoring(port)
    \/ \E c \in Callers : TerminateExited(c)
    \/ \E c \in Callers : TerminateTimeout(c)
    \/ \E c \in Callers : TerminateKilled(c)
    \/ \E c \in Callers : TerminateReturns(c)
    \/ \E c \in Callers : WorkerWaitDone(c)
    \/ \E c \in Callers : WorkerWaitTimeout(c)
    \/ \E w \in Monitors : WorkerBegin(w)
    \/ \E w \in Monitors : WorkerLaunched(w)
    \/ \E w \in Monitors : WorkerLaunchFailed(w)
    \/ \E w \in Monitors : WorkerProcessExited(w)
    \/ \E w \in Monitors : WorkerCleanup(w)
    \/ \E m \in Monitors : ProcessExit(m)
    \/ \E m \in Monitors : PipesClosed(m)
    \/ Resume

Spec == Init /\ [][Next]_vars

\* the monitor registry with two stop_monitor_for_gui calls of one port in
\* flight; the calls are made for the first port
OverlapNext ==
    \/ \E port \in {"PortA"}, widget \in Widgets : StartMonitor(port, widget)
    \/ \E port \in {"PortA"} : StopMonitor(port)
    \/ \E port \in {"PortA"} : StopMonitorAgain(port)
    \/ \E c \in Callers : TerminateExited(c)
    \/ \E c \in Callers : TerminateTimeout(c)
    \/ \E c \in Callers : TerminateKilled(c)
    \/ \E c \in Callers : TerminateReturns(c)
    \/ \E c \in Callers : WorkerWaitDone(c)
    \/ \E c \in Callers : WorkerWaitTimeout(c)
    \/ \E w \in Monitors : WorkerBegin(w)
    \/ \E w \in Monitors : WorkerLaunched(w)
    \/ \E w \in Monitors : WorkerLaunchFailed(w)
    \/ \E w \in Monitors : WorkerProcessExited(w)
    \/ \E w \in Monitors : WorkerCleanup(w)
    \/ \E m \in Monitors : ProcessExit(m)
    \/ \E m \in Monitors : PipesClosed(m)
    \/ Resume

OverlapSpec == Init /\ [][OverlapNext]_vars

\* the monitor registry under stop_all_monitors
StopAllNext ==
    \/ \E port \in Ports, widget \in Widgets : StartMonitor(port, widget)
    \/ StopAllMonitors
    \/ \E c \in Callers : TerminateExited(c)
    \/ \E c \in Callers : TerminateTimeout(c)
    \/ \E c \in Callers : TerminateKilled(c)
    \/ \E c \in Callers : TerminateReturns(c)
    \/ \E c \in Callers : WorkerWaitDone(c)
    \/ \E c \in Callers : WorkerWaitTimeout(c)
    \/ \E w \in Monitors : WorkerBegin(w)
    \/ \E w \in Monitors : WorkerLaunched(w)
    \/ \E w \in Monitors : WorkerLaunchFailed(w)
    \/ \E w \in Monitors : WorkerProcessExited(w)
    \/ \E w \in Monitors : WorkerCleanup(w)
    \/ \E m \in Monitors : ProcessExit(m)
    \/ \E m \in Monitors : PipesClosed(m)
    \/ Resume

StopAllSpec == Init /\ [][StopAllNext]_vars

\* monitors that are started and never stopped
NaturalNext ==
    \/ \E port \in Ports, widget \in Widgets : StartMonitor(port, widget)
    \/ \E w \in Monitors : WorkerBegin(w)
    \/ \E w \in Monitors : WorkerLaunched(w)
    \/ \E w \in Monitors : WorkerLaunchFailed(w)
    \/ \E w \in Monitors : WorkerProcessExited(w)
    \/ \E w \in Monitors : WorkerCleanup(w)
    \/ \E m \in Monitors : ProcessExit(m)
    \/ \E m \in Monitors : PipesClosed(m)
    \/ Resume

\* The event loop runs every task that is ready, a call that returned goes
\* on, and a process that ended on its own leaves no descendant that holds
\* its pipes. (Strong fairness: a step is not enabled in the instant in which
\* a call returns to its caller.)
NaturalSpec ==
    /\ Init
    /\ [][NaturalNext]_vars
    /\ \A w \in Monitors : SF_vars(WorkerStep(w))
    /\ \A m \in Monitors : SF_vars(PipesClosed(m))
    /\ WF_vars(Resume)

\* the monitors as the buttons of SerialMonitorsTab drive them
GuiNext ==
    \/ \E port \in Ports, widget \in Widgets : StartMonitor(port, widget)
    \/ \E port \in Ports : GuiStopMonitoring(port)
    \/ \E w \in Monitors : WorkerBegin(w)
    \/ \E w \in Monitors : WorkerLaunched(w)
    \/ \E w \in Monitors : WorkerLaunchFailed(w)
    \/ \E w \in Monitors : WorkerProcessExited(w)
    \/ \E w \in Monitors : WorkerCleanup(w)
    \/ \E m \in Monitors : ProcessExit(m)
    \/ \E m \in Monitors : PipesClosed(m)
    \/ Resume

\* The event loop runs every task that is ready and a handler that returned
\* goes on. Nothing makes a monitor process end by itself: `cat` of a serial
\* device runs until it is stopped.
GuiSpec ==
    /\ Init
    /\ [][GuiNext]_vars
    /\ \A w \in Monitors : SF_vars(WorkerStep(w))
    /\ \A m \in Monitors : SF_vars(PipesClosed(m))
    /\ WF_vars(Resume)

\* The event loop resumes every coroutine whose await is over and fires
\* every timeout, and a killed process ends. Nothing makes a process end on
\* a termination signal, nor the descendants of a process close its pipes.
StopLiveSpec ==
    /\ Init
    /\ [][Next]_vars
    /\ \A c \in Callers : SF_vars(StopStep(c))
    /\ \A w \in Monitors : SF_vars(WorkerStep(w))
    /\ \A m \in Monitors : SF_vars(KilledProcessExit(m))
    /\ WF_vars(Resume)

\* the monitor registry with a supervising task that can be cancelled by its
\* owner and a sink that can fail
CrashNext ==
    \/ \E port \in Ports, widget \in Widgets : StartMonitor(port, widget)
    \/ \E port \in Ports : StopMonitor(port)
    \/ \E c \in Callers : TerminateExited(c)
    \/ \E c \in Callers : TerminateTimeout(c)
    \/ \E c \in Callers : TerminateKilled(c)
    \/ \E c \in Callers : TerminateReturns(c)
    \/ \E c \in Callers : WorkerWaitDone(c)
    \/ \E c \in Callers : WorkerWaitTimeout(c)
    \/ \E w \in Monitors : WorkerBegin(w)
    \/ \E w \in Monitors : WorkerLaunched(w)
    \/ \E w \in Monitors : WorkerLaunchFailed(w)
    \/ \E w \in Monitors : WorkerProcessExited(w)
    \/ \E w \in Monitors : WorkerCleanup(w)
    \/ \E w \in Monitors : WorkerCancelled(w)
    \/ \E w \in Monitors : WorkerSinkFails(w)
    \/ \E m \in Monitors : ProcessExit(m)
    \/ \E m \in Monitors : PipesClosed(m)
    \/ Resume

CrashSpec == Init /\ [][CrashNext]_vars

\* the pipelines
PipelineNext ==
    \/ CcfCall
    \/ CcfStep
    \/ CcfBetweenStepsRaises
    \/ \E kind \in TargetKinds, raw \in {"True", "False", "other", "raise", "none"} :
           CallWithResults(kind, raw)
    \/ LegacyCall
    \/ LegacyStep
    \/ \E n \in 0..MaxCommands : RunCommandsCall(n)
    \/ RunCommandsStep

PipelineSpec == Init /\ [][PipelineNext]_vars

\* FlashApp.config_compile_flash with the sdkconfig files it owns
ConfigNext ==
    \/ CcfCall
    \/ \E sel \in Selections, raw \in {"other", "raise"} :
           CcfSwitchToWorkspace(sel, raw)
    \/ \E how \in {"ok", "rotate_fails", "copy_fails"},
          writing \in {"ok", "open_fails", "write_fails"} :
           CcfUpdateSdkconfig(how, writing)
    \/ CcfProcessStep
    \/ CcfBetweenStepsRaises

ConfigSpec == Init /\ [][ConfigNext]_vars

\* one process-backed run
StreamNext ==
    \/ \E kind \in RunKinds : RunBegin(kind)
    \/ RunLaunched
    \/ RunLaunchFailed
    \/ \E st \in Streams : ProcessWrites(st)
    \/ \E st \in Streams : StreamRead(st)
    \/ \E st \in Streams : StreamTimeout(st)
    \/ Tick
    \/ \E st \in Streams : StreamEOF(st)
    \/ \E st \in Streams : StreamStops(st)
    \/ RunProcessExit
    \/ RunPipesClosed
    \/ RunTerminate
    \/ RunKill
    \/ RunWaitReturns
    \/ RunGatherReturns

StreamSpec == Init /\ [][StreamNext]_vars

\* one process-backed run whose reads can fail
StreamErrorNext ==
    \/ \E kind \in RunKinds : RunBegin(kind)
    \/ RunLaunched
    \/ RunLaunchFailed
    \/ \E st \in Streams : ProcessWrites(st)
    \/ \E st \in Streams : StreamRead(st)
    \/ \E st \in Streams : StreamTimeout(st)
    \/ Tick
    \/ \E st \in Streams : StreamEOF(st)
    \/ \E st \in Streams : StreamReadError(st)
    \/ \E st \in Streams : StreamStops(st)
    \/ RunProcessExit
    \/ RunPipesClosed
    \/ RunTerminate
    \/ RunKill
    \/ RunWaitReturns
    \/ RunGatherReturns

StreamErrorSpec == Init /\ [][StreamErrorNext]_vars

\* the update steps of one Sdkconfig object
LinesNext ==
    \/ \E file \in UNION {[keys -> RawLines] : keys \in SUBSET Catalog} :
           LinesInit(file)
    \/ LinesReload
    \/ \E lib_id \in Libs, example_id \in Examples,
          how \in {"ok", "backup_fails", "open_fails", "write_fails"} :
           LinesUpdate(lib_id, example_id, how)

LinesSpec == Init /\ [][LinesNext]_vars

\* one stream task and its text
TextNext ==
    \/ \E st \in Streams : TextBegin(st)
    \/ \E data \in Reads, due \in BOOLEAN : TextRead(data, due)
    \/ \E due \in BOOLEAN : TextTimeout(due)
    \/ TextEOF
    \/ TextReadError
    \/ TextStops

TextSpec == Init /\ [][TextNext]_vars

\* the same run where the event loop keeps running what is ready: the
\* stream tasks, the clock, and the awaits of start(); when the process
\* exits and when its pipes are closed is up to the process and its children
StreamLiveSpec ==
    /\ Init
    /\ [][StreamNext]_vars
    /\ \A st \in Streams : WF_vars(StreamRead(st))
    /\ \A st \in Streams : WF_vars(StreamTimeout(st))
    /\ \A st \in Streams : WF_vars(StreamEOF(st))
    /\ \A st \in Streams : WF_vars(StreamStops(st))
    /\ WF_vars(Tick)
    /\ WF_vars(RunWaitReturns)
    /\ WF_vars(RunGatherReturns)

----------------------------------------------------------------------------
\* The claims

IsPrefix(s, t) == Len(s) <= Len(t) /\ \A i \in 1..Len(s) : s[i] = t[i]

\* C1: every pipeline executes a prefix of its steps in order, stops at the
\* first step that fails, and starts step k+1 only when step k succeeded
\* (PipelineSpec)
C1_PrefixAbort ==
    /\ IsPrefix(ccf.attempted, [i \in DOMAIN CcfSteps |-> CcfSteps[i].name])
    /\ IsPrefix(legacy.attempted, [i \in DOMAIN LegacySteps |-> LegacySteps[i].name])
    /\ IsPrefix(runner.attempted, [i \in 1..runner.n |-> i])
    /\ \A i \in 1..(Len(ccf.outcomes) - 1) : ccf.outcomes[i]
    /\ \A i \in 1..(Len(legacy.outcomes) - 1) : legacy.outcomes[i]
    /\ \A i \in 1..(Len(runner.codes) - 1) : runner.codes[i] = 0
    /\ ccf.pc > 0 =>
          Len(ccf.attempted) = ccf.pc - 1 /\ \A i \in DOMAIN ccf.outcomes : ccf.outcomes[i]
    /\ legacy.pc > 0 =>
          Len(legacy.attempted) = legacy.pc - 1
          /\ \A i \in DOMAIN legacy.outcomes : legacy.outcomes[i]
    /\ runner.pc > 0 =>
          Len(runner.attempted) = runner.pc - 1
          /\ \A i \in DOMAIN runner.codes : runner.codes[i] = 0

\* the build step failed and the flash step was not run; the second of three
\* commands failed and the third was not run
C1_Witness ==
    /\ ccf.pc = 0 /\ ccf.outcomes = <<TRUE, TRUE, FALSE>> /\ ccf.ret = FALSE
    /\ runner.pc = 0 /\ runner.n = 3 /\ runner.codes = <<0, 2>> /\ runner.ret = 2

\* C2: each port has at most one live entry (active_monitors is a dict) and
\* at most one running monitor process
C2_OnePerPort ==
    \A port \in Ports : Cardinality(RunningProcesses(Cur, port)) <= 1

\* C3: a start never succeeds while a stop of its port is suspended, and a
\* stop removes no entry but the one of the process object it terminated
C3_Serialized ==
    /\ (returned.op = "start" /\ returned.value) => ~Stopping(Cur, returned.port)
    /\ returned.op = "stop" => returned.removed \in {0, returned.process}

\* C4: start_monitor_for_gui on a port that has an entry returns False and
\* changes nothing in the registry
C4_FailedStartNoChange ==
    [][\A port \in Ports, widget \in Widgets :
         (/\ port \in DOMAIN active_monitors
          /\ StartMonitor(port, widget))
         => (/\ returned'.value = FALSE
             /\ UNCHANGED <<active_monitors, port_loggers, worker_tasks,
                            monitors, workers, stops, stop_all>>)]_vars

\* a start with another widget has just failed on a monitored port
C4_Witness ==
    /\ returned.op = "start"
    /\ ~returned.value
    /\ returned.port \in DOMAIN active_monitors
    /\ port_loggers[returned.port] # returned.widget

\* C5: for every monitor the removal of its entry is executed once, by the
\* stop or by the supervising task, whichever comes first (a second
\* execution finds no entry, or the entry of a later monitor of the port)
C5_CleanupOnce ==
    \A m \in DOMAIN monitors : monitors[m].dels <= 1

C7_StopSafe ==
    returned.op = "stop" =>
        /\ returned.value # "KeyError"
        /\ returned.value = "True" =>
              /\ returned.port \notin DOMAIN active_monitors
              /\ RunningProcesses(Cur, returned.port) = {}

\* C8: a stop that had to kill the process returns True with the process
\* ended and the entry removed
C8_KillThenTrue ==
    (returned.op = "stop" /\ returned.killed) =>
        /\ returned.value = "True"
        /\ returned.port \notin DOMAIN active_monitors
        /\ monitors[returned.process].process # "alive"

\* C9: when stop_all_monitors returns, no port that was live at the call is
\* monitored, unless it was started again in the meantime (StopAllSpec)
C9_StopAllClears ==
    returned.op = "stop_all" =>
        \A port \in returned.live \ returned.restarted :
            port \notin DOMAIN active_monitors

\* stop_all_monitors returns after it stopped two ports
C9_Witness ==
    /\ returned.op = "stop_all"
    /\ returned.live = Ports
    /\ returned.restarted = {}

\* C10: when stop_all_monitors stopped every monitor that was live at the
\* call, it returns the number of these monitors (StopAllSpec)
C10_CountsStops ==
    (returned.op = "stop_all" /\ returned.stopped = returned.live) =>
        returned.value = Cardinality(returned.live)

\* C11: stop_monitor_for_gui on a port that has no entry returns False, does
\* not raise, and changes nothing in the registry
C11_MissingStopNoChange ==
    [][\A port \in Ports :
         (/\ port \notin DOMAIN active_monitors
          /\ StopMonitor(port))
         => (/\ returned'.op = "stop"
             /\ returned'.value = "False"
             /\ UNCHANGED <<active_monitors, port_loggers, worker_tasks,
                            monitors, workers, stops, stop_all>>)]_vars

\* a stop of a port without entry has just returned False, while another
\* port is monitored and the stopped port still has the supervising-task
\* record of an earlier monitor
C11_Witness ==
    /\ returned.op = "stop"
    /\ returned.value = "False"
    /\ returned.port \notin DOMAIN active_monitors
    /\ returned.port \in DOMAIN worker_tasks
    /\ active_monitors # EmptyDict

\* C12: terminate() of a process object whose process has already ended, or
\* that was already terminated, is a no-op: it sends no signal and changes
\* nothing in the object (terminate is called at line 277 of the stop)
C12_TerminateIdempotent ==
    [][\A port \in Ports :
         (/\ port \in DOMAIN active_monitors
          /\ \/ monitors[active_monitors[port]].process \in {"exited", "closed"}
             \/ /\ monitors[active_monitors[port]].process # "none"
                /\ ~monitors[active_monitors[port]].running
          /\ StopMonitor(port))
         => (/\ monitors'[active_monitors[port]].process =
                    monitors[active_monitors[port]].process
             /\ monitors'[active_monitors[port]].running =
                    monitors[active_monitors[port]].running
             /\ ~stops'["gui"].signalled
             /\ ~stops'["gui"].killed)]_vars

\* C13: however the supervising task of a monitor has ended (process
\* success or failure, exception, cancellation), the entry of that monitor
\* is gone: is_monitoring does not report it (CrashSpec)
C13_NoStaleEntry ==
    \A w \in DOMAIN workers :
        workers[w].pc \in {"done", "cancelled"} =>
            ~(/\ monitors[w].port \in DOMAIN active_monitors
              /\ active_monitors[monitors[w].port] = w)

\* C14: every call of stop_monitor_for_gui returns: each of its waits is
\* bounded (StopLiveSpec)
C14_StopReturns ==
    \A c \in Callers : (stops[c].pc # "idle") ~> (stops[c].pc = "idle")

\* C15: the supervising task of a monitor writes one terminal message to
\* the sink when it ends, and never more than one
C15_OneTerminalEvent ==
    \A w \in DOMAIN workers :
        /\ workers[w].terminal <= 1
        /\ workers[w].pc \in {"done", "cancelled"} => workers[w].terminal = 1

\* C16: in a process-backed run the sink receives the start event before
\* any output of the process, and the terminal event only when both stream
\* tasks have ended with nothing left in their buffers, so that no output
\* follows it (StreamSpec)
C16_StartOutputTerminal ==
    /\ \A i \in DOMAIN run.sink :
          run.sink[i] \in Streams => (i > 1 /\ run.sink[1] = "start")
    /\ \A i \in DOMAIN run.sink :
          run.sink[i] = "terminal" =>
              /\ i = Len(run.sink)
              /\ \A st \in Streams :
                    run.task[st] # "reading" /\ run.buffer[st] = 0

\* a run has ended after output of both streams, the last of it written
\* when the stream task ended
C16_Witness ==
    /\ run.pc = "done"
    /\ run.sink = <<"start", "stdout", "stderr", "terminal">>
    /\ run.process = "closed"


\* a run of a pipeline that has returned a value
Returned(f) == f.pc = 0 /\ f.attempted # <<>> /\ ~f.raised

\* the value a run must return: true exactly when every one of the n steps
\* was executed and succeeded
AllSucceeded(f, n) ==
    /\ Len(f.outcomes) = n
    /\ \A i \in 1..n : f.outcomes[i]

\* a false outcome ends the run at once with false
FalseEndsRun(f) ==
    \A i \in DOMAIN f.outcomes :
        ~f.outcomes[i] => (i = Len(f.outcomes) /\ f.pc = 0 /\ ~f.ret)

\* C17: config_compile_flash (FlashApp and FlashAppLogic) returns true if and
\* only if every one of its steps was executed and succeeded, and it returns
\* false as soon as one step's outcome is false
C17_TrueIffAll ==
    /\ Returned(ccf) => (ccf.ret <=> AllSucceeded(ccf, Len(CcfSteps)))
    /\ Returned(legacy) => (legacy.ret <=> AllSucceeded(legacy, Len(LegacySteps)))
    /\ FalseEndsRun(ccf)
    /\ FalseEndsRun(legacy)

\* both pipelines have returned, one true after all its steps and one false
\* after a failed second step
C17_Witness ==
    /\ Returned(ccf) /\ ccf.ret /\ Len(ccf.outcomes) = Len(CcfSteps)
    /\ Returned(legacy) /\ ~legacy.ret /\ legacy.outcomes = <<TRUE, FALSE>>

\* C18: the pipeline runner reports, for every step it attempted, the
\* step's name and outcome as an explicit ordered list handed to its caller
\* (after prepare ok, update_config ok, build failed: three entries with the
\* outcomes true, true, false and no entry for flash)
C18_ReportsOutcomes ==
    Returned(ccf) =>
        /\ Len(ccf.reported) = Len(ccf.attempted)
        /\ \A i \in DOMAIN ccf.attempted :
              ccf.reported[i] = [name |-> ccf.attempted[i],
                                 succeeded |-> ccf.outcomes[i]]

\* C19: for a callable target, call_with_results calls it once, returns its
\* result when that is a boolean and true when it is anything else, and
\* returns false when the callable raises or when the target is neither a
\* launch specification nor a callable
C19_CallableOutcome ==
    /\ call.kind = "callable" =>
          /\ call.calls = 1
          /\ call.raw \in {"True", "False"} => call.result = (call.raw = "True")
          /\ call.raw = "other" => call.result
          /\ call.raw = "raise" => ~call.result
    /\ call.kind = "other" => (~call.result /\ call.calls = 0)
    /\ \A i \in DOMAIN ccf.raws :
          CcfSteps[i].kind = "callable" =>
              ccf.outcomes[i] = (ccf.raws[i] \in {"True", "other"})

\* a callable that returned something other than a boolean was called
\* directly, and the first step of a pipeline run raised
C19_Witness ==
    /\ call.kind = "callable" /\ call.raw = "other" /\ call.result
    /\ ccf.raws = <<"raise">> /\ ccf.outcomes = <<FALSE>>

\* C20: no failure raised during a run of FlashApp.config_compile_flash,
\* inside or between its steps, leaves it as an exception
C20_NoEscape == ~ccf.raised

\* C21: a process-backed run returns true exactly when the exit status of
\* its process is zero; a non-zero status, a process ended by the signal of
\* terminate() and a failed launch all give false
C21_TrueIffZero ==
    run.pc = "done" =>
        /\ run.process = "none" => ~run.ret
        /\ run.process # "none" => (run.ret <=> run.returncode = 0)
        /\ (run.process # "none" /\ run.returncode < 0) => ~run.ret

\* a stopped monitor whose process was ended by a signal has returned false
C21_Witness ==
    /\ run.pc = "done"
    /\ run.signal # "none"
    /\ run.returncode < 0
    /\ ~run.ret

\* the terminal messages (completed or failed) in a log
TerminalMessages(log) ==
    {i \in DOMAIN log : log[i] \in {"completed", "failed"}}

\* C22: every call of call_with_results that returns has written exactly
\* one terminal message, completed or failed, to its logger, on every path:
\* process success and failure, a callable returning true, false or
\* something else, and a raised exception; the message agrees with the
\* value returned
C22_OneTerminalMessage ==
    call.kind # "-" =>
        /\ Cardinality(TerminalMessages(call.log)) = 1
        /\ \A i \in TerminalMessages(call.log) :
              (call.log[i] = "completed") <=> call.result

\* a call with a callable that returned something other than a bool has
\* written its one message
C22_Witness ==
    /\ call.kind = "callable"
    /\ call.raw = "other"
    /\ call.log = <<"completed">>

\* C23: when the backup of the configuration file fails in the `Update
\* sdkconfig` step, the outcome of that step is failure and the run does not
\* go on to the build step
C23_BackupFailAborts ==
    (Len(ccf.outcomes) >= UpdateStep /\ sdkconfig.backup = "failed") =>
        /\ ~ccf.outcomes[UpdateStep]
        /\ Len(ccf.attempted) = UpdateStep
        /\ ccf.pc = 0

\* C24: an sdkconfig file is overwritten only in the `Update sdkconfig` step
\* and only after its previous content was backed up in the same write;
\* when the backup fails the content of every file is left as it was
C24_WriteAfterBackup ==
    [][/\ \A w \in Selections :
             (/\ sdkconfig.files[w] # "missing"
              /\ sdkconfig'.files[w] # sdkconfig.files[w])
             => (/\ ccf.pc = UpdateStep
                 /\ sdkconfig.path = w
                 /\ sdkconfig'.backup = "ok"
                 /\ sdkconfig'.backups[w] # <<>>
                 /\ sdkconfig'.backups[w][1] = sdkconfig.files[w])
       /\ (ccf.pc = UpdateStep /\ ccf'.pc # UpdateStep
           /\ sdkconfig'.backup = "failed")
          => sdkconfig'.files = sdkconfig.files]_vars

\* the file of the second workspace was overwritten with its selection, and
\* its first backup holds the content it had before
C24_Witness ==
    /\ sdkconfig.files["s2"] = "s2"
    /\ sdkconfig.backups["s2"] = <<BaseContent>>
    /\ sdkconfig.backup = "ok"

\* C25: when a stream ends or its task is told to stop, the task writes
\* what is left in its buffer exactly once and then stops; no chunk it has
\* read is dropped and none is written twice
C25_FlushOnceAtEnd ==
    /\ [](\A st \in Streams :
             /\ run.taken[st] = run.written[st] + run.buffer[st]
             /\ run.task[st] = "done" => run.buffer[st] = 0)
    /\ [][\A st \in Streams :
             /\ (run.task[st] = "reading" /\ run'.task[st] = "done") =>
                   /\ run'.written[st] = run.written[st] + run.buffer[st]
                   /\ Len(run'.sink) =
                        Len(run.sink) + (IF run.buffer[st] > 0 THEN 1 ELSE 0)
             /\ run.task[st] = "done" =>
                   /\ run'.task[st] = "done"
                   /\ run'.written[st] = run.written[st]]_vars

\* both stream tasks have stopped, each with one chunk read and written,
\* and nothing else has reached the sink
C25_Witness ==
    /\ \A st \in Streams : run.task[st] = "done" /\ run.written[st] = 1
    /\ run.sink = <<"start", "stdout", "stderr">>

\* C26: a stream task in its loop never holds data longer than
\* flush_interval: a buffer that is not empty is written at the first read
\* or poll after flush_interval has passed since the last flush, so every
\* chunk is in the sink within flush_interval of being read
C26_FlushLatency ==
    \A st \in Streams :
        run.buffer[st] > 0 =>
            /\ run.age[st] <= FlushInterval
            /\ run.age[st] <= run.elapsed[st]

\* a chunk has been in the buffer of a running stream task for a whole
\* flush_interval and is due at the task's next poll
C26_Witness ==
    \E st \in Streams :
        /\ run.task[st] = "reading"
        /\ run.running
        /\ run.buffer[st] > 0
        /\ run.age[st] = FlushInterval
        /\ ~run.polled[st]

\* C27: once the process has exited, the run completes, also when one of its
\* output streams never reaches end of file
C27_RunCompletes == (run.process = "exited") ~> (run.pc = "done")

\* a step leaves the entry, the sink and the supervising-task record of
\* every port other than A as they were
OtherPortsUnchanged(A) ==
    \A B \in Ports \ {A} :
        /\ (B \in DOMAIN active_monitors') <=> (B \in DOMAIN active_monitors)
        /\ B \in DOMAIN active_monitors => active_monitors'[B] = active_monitors[B]
        /\ (B \in DOMAIN port_loggers') <=> (B \in DOMAIN port_loggers)
        /\ B \in DOMAIN port_loggers => port_loggers'[B] = port_loggers[B]
        /\ (B \in DOMAIN worker_tasks') <=> (B \in DOMAIN worker_tasks)
        /\ B \in DOMAIN worker_tasks => worker_tasks'[B] = worker_tasks[B]

\* C28: operations of the registry on different ports are independent: a
\* step of start_monitor_for_gui, of stop_monitor_for_gui or of the
\* supervising task of port A never adds, removes or changes the entry, the
\* sink or the supervising-task record of another port
C28_PortsIndependent ==
    [][/\ \A port \in Ports, widget \in Widgets :
             StartMonitor(port, widget) => OtherPortsUnchanged(port)
       /\ \A port \in Ports :
             StopMonitor(port) => OtherPortsUnchanged(port)
       /\ \A c \in Callers :
             StopStep(c) => OtherPortsUnchanged(stops[c].port)
       /\ \A w \in Monitors :
             WorkerStep(w) => OtherPortsUnchanged(monitors[w].port)]_vars

\* a stop has removed the entry of its port while the other port, started
\* later, keeps its entry, its sink and its supervising task
C28_Witness ==
    /\ returned.op = "stop"
    /\ returned.value = "True"
    /\ returned.port \notin DOMAIN active_monitors
    /\ \E B \in Ports \ {returned.port} :
          /\ B \in DOMAIN active_monitors
          /\ B \in DOMAIN port_loggers
          /\ B \in DOMAIN worker_tasks

\* C29: the registry is the authority on liveness: whenever the process of a
\* monitor is running, is_monitoring of its port is true
C29_RunningImpliesEntry ==
    \A m \in DOMAIN monitors :
        monitors[m].process = "alive" =>
            monitors[m].port \in DOMAIN active_monitors

\* C30: is_monitoring(port) returns true exactly when the port has an entry
\* and changes nothing in the registry
C30_PureLookup ==
    [][\A port \in Ports :
          IsMonitoring(port) =>
              /\ returned'.op = "is_monitoring"
              /\ returned'.value <=> (port \in DOMAIN active_monitors)
              /\ UNCHANGED <<active_monitors, port_loggers, worker_tasks,
                             monitors, workers, stops, stop_all>>]_vars

\* is_monitoring returned false for a port whose entry the supervising task
\* has removed while the record of that task is still there
C30_Witness ==
    /\ returned.op = "is_monitoring"
    /\ ~returned.value
    /\ returned.port \in DOMAIN worker_tasks

\* no start, stop or stop_all_monitors is in the middle of its code
NoOperationInProgress ==
    /\ returned = NoReturn
    /\ \A c \in Callers : stops[c].pc = "idle"
    /\ stop_all.pc = "idle"

\* C36: whenever no registry operation is in progress, active_monitors,
\* port_loggers and worker_tasks have the same keys; after a monitor has
\* ended by itself neither a sink nor a supervising-task record of its port
\* is left
C36_SameKeys ==
    NoOperationInProgress =>
        /\ DOMAIN port_loggers = DOMAIN active_monitors
        /\ DOMAIN worker_tasks = DOMAIN active_monitors

\* C33: when the monitor process cannot be launched, the failure is reported
\* to the sink of the port once, the supervising task returns false at once
\* and the entry of the port is removed
C33_LaunchFailure ==
    [][\A w \in Monitors :
          WorkerLaunchFailed(w) =>
              /\ workers'[w].failed = 1
              /\ workers'[w].pc = "done"
              /\ workers'[w].ret = <<FALSE>>
              /\ monitors[w].port \notin DOMAIN active_monitors']_vars

C33_Witness ==
    \E w \in DOMAIN workers :
        /\ workers[w].failed = 1
        /\ workers[w].ret = <<FALSE>>
        /\ monitors[w].process = "none"
        /\ monitors[w].port \notin DOMAIN active_monitors

\* both of two overlapping stop_monitor_for_gui calls have returned, the
\* second of them just now
BothReturned ==
    /\ returned.op = "stop"
    /\ stops["gui"].pc = "idle"
    /\ stops["gui2"].pc = "idle"
    /\ stops["gui"].last # "none"
    /\ stops["gui2"].last # "none"

\* C35: when two stop_monitor_for_gui calls of the same live port overlap,
\* neither raises, exactly one of them returns true, and the entry they were
\* called for is gone when both have returned
C35_OverlappingStops ==
    BothReturned =>
        /\ stops["gui"].last # "KeyError"
        /\ stops["gui2"].last # "KeyError"
        /\ (stops["gui"].last = "True") # (stops["gui2"].last = "True")
        /\ \A p \in DOMAIN active_monitors :
               active_monitors[p] # returned.process

\* C38: when the stop handler of the GUI runs for a port that is monitored,
\* the monitor is stopped: is_monitoring(port) becomes false eventually
C38_GuiStopStops ==
    \A port \in Ports :
        (/\ returned.op = "gui_stop"
         /\ returned.port = port
         /\ port \in DOMAIN active_monitors)
            ~> (port \notin DOMAIN active_monitors)

HasNewline(text) == \E i \in DOMAIN text : text[i] = "nl"

LastNewline(text) ==
    CHOOSE i \in DOMAIN text :
        text[i] = "nl" /\ \A j \in DOMAIN text : j > i => text[j] # "nl"

UpToLastNewline(text) == [i \in 1..LastNewline(text) |-> text[i]]

AfterLastNewline(text) ==
    [i \in 1..(Len(text) - LastNewline(text)) |-> text[LastNewline(text) + i]]

\* C31: when the buffer of a stream task holds a newline, the flush writes
\* the buffer up to and including the last newline and keeps what follows
\* it in the buffer for a later flush
C31_FlushToNewline ==
    [][\A data \in Reads, due \in BOOLEAN :
          LET text == out.buffer \o decode(data)
          IN TextRead(data, due) /\ HasNewline(text) =>
                 /\ out'.sink = Append(out.sink,
                        remove_cr(out.prefix \o UpToLastNewline(text)))
                 /\ out'.buffer = AfterLastNewline(text)]_vars

RECURSIVE Concatenation(_)

Concatenation(texts) ==
    IF texts = <<>> THEN <<>>
    ELSE Head(texts) \o Concatenation(Tail(texts))

WithoutPrefix(prefix, text) ==
    IF Len(text) <= Len(prefix) THEN <<>>
    ELSE [i \in 1..(Len(text) - Len(prefix)) |-> text[Len(prefix) + i]]

Delivered ==
    Concatenation([i \in DOMAIN out.sink |->
                      WithoutPrefix(out.prefix, out.sink[i])])

\* C37: for a stream that runs until end-of-file, the texts written to the
\* sink, without the prefix of each flush and without carriage returns, make
\* up the decoded data read without carriage returns: every piece read is
\* delivered once and in the order read
C37_DeliveredOnceInOrder ==
    (out.task = "done" /\ out.ended = "eof") =>
        /\ \A i \in DOMAIN out.sink :
               IsPrefix(out.prefix, out.sink[i])
        /\ SelectSeq(Delivered, LAMBDA ch : ch # "cr")
               = SelectSeq(out.data, LAMBDA ch : ch # "cr")

C37_Witness ==
    /\ out.task = "done"
    /\ out.ended = "eof"
    /\ out.prefix # <<>>
    /\ Len(out.sink) >= 2
    /\ \E i \in DOMAIN out.data : out.data[i] = "cr"
    /\ \E i \in DOMAIN out.data : out.data[i] = "fffd"
    /\ Len(out.data) = MaxData

ErrorLines(st) == {i \in DOMAIN run.sink : run.sink[i] = StreamErrorLine(st)}

\* C32: a read error on one stream ends the loop of that stream only and is
\* written to the sink once; the task of the other stream is left as it is,
\* and the result of the run is still given by the exit status
C32_ReadError ==
    /\ [](/\ \A st \in Streams : Cardinality(ErrorLines(st)) <= 1
          /\ (run.pc = "done" /\ run.process # "none") =>
                 run.ret = (run.returncode = 0))
    /\ [][\A st \in Streams :
            StreamReadError(st) =>
                /\ run'.task[st] = "done"
                /\ Cardinality(ErrorLines(st)') = 1
                /\ run'.running = run.running
                /\ run'.pc = run.pc
                /\ \A other \in Streams \ {st} :
                       /\ run'.task[other] = run.task[other]
                       /\ run'.buffer[other] = run.buffer[other]
                       /\ run'.pipe[other] = run.pipe[other]
                       /\ run'.written[other] = run.written[other]]_vars

C32_Witness ==
    /\ run.pc = "done"
    /\ run.ret
    /\ \E i, j \in DOMAIN run.sink :
           /\ i < j
           /\ run.sink[i] = StreamErrorLine("stderr")
           /\ run.sink[j] = "stdout"

\* the value the update step gives key k for the selection
Selected(k, lib_id, example_id) ==
    IF k = lib_id \/ k = example_id THEN "y" ELSE "n"

\* C39: after a successful update step for (lib_id, example_id), of the
\* catalog keys the configuration has, those equal to lib_id or example_id
\* have the value 'y' and all others 'n'; the file is written only if a value
\* changed, so the step repeated with the same selection writes nothing, and
\* a file that was written reads back with the values of the selection
C39_SelectionApplied ==
    [][\A lib_id \in Libs, example_id \in Examples,
         how \in {"ok", "backup_fails", "open_fails", "write_fails"} :
          (LinesUpdate(lib_id, example_id, how) /\ cfg'.ret) =>
              /\ \A k \in DOMAIN cfg'.lines :
                     cfg'.lines[k].value = Selected(k, lib_id, example_id)
              /\ cfg'.wrote =>
                     \E k \in DOMAIN cfg.lines :
                         cfg.lines[k].value # Selected(k, lib_id, example_id)
              /\ (\A k \in DOMAIN cfg.lines :
                      cfg.lines[k].value = Selected(k, lib_id, example_id))
                     => (~cfg'.wrote /\ cfg'.file = cfg.file)
              /\ cfg'.wrote =>
                     \A k \in DOMAIN cfg'.file :
                         SdkconfigLine(cfg'.file[k]).value
                             = Selected(k, lib_id, example_id)]_vars

\* the step was repeated with the selection of the step before, on a file
\* that step had written, and wrote nothing
C39_Witness ==
    /\ cfg.state = "loaded"
    /\ cfg.ret
    /\ cfg.changes_made = 0
    /\ ~cfg.wrote
    /\ cfg.lib_id = "LIB_B"
    /\ cfg.example_id = "EXAMPLE_A"
    /\ cfg.file = [k \in Catalog |->
                      IF k \in {"LIB_B", "EXAMPLE_A"} THEN "CONFIG_K = y"
                      ELSE "CONFIG_K = n"]
    /\ \A k \in Catalog : ~cfg.lines[k].is_changed

\* the backup files that exist next to the sdkconfig file of workspace w
Generations(w) ==
    {i \in DOMAIN sdkconfig.backups[w] : sdkconfig.backups[w][i] # "missing"}

\* C34: after any number of successful Sdkconfig.write() calls no more than
\* max_backups backup generations are kept, and generation 1 holds the
\* content the file had just before the most recent write
C34_BoundedBackups ==
    /\ [](\A w \in Selections :
             /\ Cardinality(Generations(w)) <= max_backups
             /\ Len(sdkconfig.backups[w]) <= max_backups)
    /\ [][(/\ CcfUpdateSdkconfig("ok", "ok")
           /\ sdkconfig'.backup = "ok")
          => (/\ sdkconfig'.backups[sdkconfig.path][1]
                     = sdkconfig.files[sdkconfig.path]
              /\ sdkconfig'.files[sdkconfig.path] = sdkconfig'.lines)]_vars

\* the fourth generation exists after a write that went through
C34_Witness ==
    \E w \in Selections :
        /\ Cardinality(Generations(w)) = KeptBackups
        /\ sdkconfig.backup = "ok"
        /\ sdkconfig.path = w
        /\ sdkconfig.files[w] = w
        /\ sdkconfig.backups[w][1] # sdkconfig.files[w]

====
